---- MODULE Spec2Model ----
(***************************************************************************)
(* Dual Audio Tag Manager: the tag / cover codec of                        *)
(* dual_audio_tag_manager_v2.py (get_tags, set_tags, get_cover_bytes,      *)
(* set_cover_bytes) and the two copy handlers of its MainWindow; of the    *)
(* first revision, dual_audio_tag_manager.py, the reading side (get_tags,  *)
(* extract_cover, show_audio).                                             *)
(*                                                                         *)
(* A Python str is modelled as a sequence of one-character strings and a   *)
(* Python bytes object as a sequence of numbers 0..255, so that strip(),   *)
(* lower(), isdigit(), startswith(), base64 and the binary picture block   *)
(* are computed, not assumed.                                              *)
(***************************************************************************)
EXTENDS Integers, Sequences, FiniteSets, TLC

(***************************************************************************)
(* Text and bytes                                                          *)
(***************************************************************************)

\* The printable ASCII characters, code 32 (space) to code 126; "(bq)" stands for
\* the backquote, code 96.
Ascii == <<" ", "!", "\"", "#", "$", "%", "&", "'", "(", ")", "*", "+", ",", "-", ".", "/", "0", "1", "2", "3", "4", "5", "6", "7", "8", "9", ":", ";", "<", "=", ">", "?", "@", "A", "B", "C", "D", "E", "F", "G", "H", "I", "J", "K", "L", "M", "N", "O", "P", "Q", "R", "S", "T", "U", "V", "W", "X", "Y", "Z", "[", "\\", "]", "^", "_", "(bq)", "a", "b", "c", "d", "e", "f", "g", "h", "i", "j", "k", "l", "m", "n", "o", "p", "q", "r", "s", "t", "u", "v", "w", "x", "y", "z", "{", "|", "}", "~">>

\* A character outside printable ASCII (what a decoder yields for such a byte).
NonAscii == "(?)"

AsciiSet == {Ascii[i] : i \in 1..Len(Ascii)}

IsAscii(c) == c \in AsciiSet

\* The code of each printable ASCII character.
OrdMap == [c \in AsciiSet |-> 31 + (CHOOSE i \in 1..Len(Ascii) : Ascii[i] = c)]

\* ord(c) and chr(n) on printable ASCII.
Ord(c) == IF IsAscii(c) THEN OrdMap[c] ELSE 255

Chr(n) == IF n >= 32 /\ n <= 126 THEN Ascii[n - 31] ELSE NonAscii

\* str.encode / bytes.decode on ASCII text.
Encode(s) == [i \in 1..Len(s) |-> Ord(s[i])]

Decode(b) == [i \in 1..Len(b) |-> Chr(b[i])]

\* The lower-case and upper-case form of each printable ASCII character.
LowerMap == [c \in AsciiSet |-> IF OrdMap[c] >= 65 /\ OrdMap[c] <= 90 THEN Chr(OrdMap[c] + 32) ELSE c]

UpperMap == [c \in AsciiSet |-> IF OrdMap[c] >= 97 /\ OrdMap[c] <= 122 THEN Chr(OrdMap[c] - 32) ELSE c]

LowerChar(c) == IF IsAscii(c) THEN LowerMap[c] ELSE c

UpperChar(c) == IF IsAscii(c) THEN UpperMap[c] ELSE c

\* str.lower() and str.upper()
Lower(s) == [i \in 1..Len(s) |-> LowerChar(s[i])]

Upper(s) == [i \in 1..Len(s) |-> UpperChar(s[i])]

\* The characters str.strip() removes (ASCII whitespace; only the space is printable).
IsSpace(c) == c = " "

RECURSIVE LStrip(_)
LStrip(s) == IF s # <<>> /\ IsSpace(Head(s)) THEN LStrip(Tail(s)) ELSE s

RECURSIVE RStrip(_)
RStrip(s) == IF s # <<>> /\ IsSpace(s[Len(s)]) THEN RStrip(SubSeq(s, 1, Len(s) - 1)) ELSE s

\* str.strip()
Strip(s) == RStrip(LStrip(s))

IsDigitChar(c) == IsAscii(c) /\ Ord(c) >= 48 /\ Ord(c) <= 57

\* str.isdigit(): non-empty and all characters digits.
IsDigit(s) == s # <<>> /\ \A i \in 1..Len(s) : IsDigitChar(s[i])

\* int(s) for a digit string.
RECURSIVE ToInt(_)
ToInt(s) == IF s = <<>> THEN 0 ELSE 10 * ToInt(SubSeq(s, 1, Len(s) - 1)) + (Ord(s[Len(s)]) - 48)

\* str(n) for a natural number.
RECURSIVE ToStr(_)
ToStr(n) == IF n < 10 THEN <<Chr(48 + n)>> ELSE ToStr(n \div 10) \o <<Chr(48 + (n % 10))>>

\* s.startswith(p) and s.endswith(p), on text or on bytes.
StartsWith(s, p) == Len(s) >= Len(p) /\ SubSeq(s, 1, Len(p)) = p

EndsWith(s, p) == Len(s) >= Len(p) /\ SubSeq(s, Len(s) - Len(p) + 1, Len(s)) = p

Min(a, b) == IF a < b THEN a ELSE b

\* b[pos : pos + n] of Python (1-based pos): what read(n) returns, shorter at the end.
Take(b, pos, n) == SubSeq(b, pos, Min(pos + n - 1, Len(b)))

(***************************************************************************)
(* base64 (the standard alphabet, "=" padding)                             *)
(***************************************************************************)

B64Chars == <<"A", "B", "C", "D", "E", "F", "G", "H", "I", "J", "K", "L", "M", "N", "O", "P", "Q", "R", "S", "T", "U", "V", "W", "X", "Y", "Z", "a", "b", "c", "d", "e", "f", "g", "h", "i", "j", "k", "l", "m", "n", "o", "p", "q", "r", "s", "t", "u", "v", "w", "x", "y", "z", "0", "1", "2", "3", "4", "5", "6", "7", "8", "9", "+", "/">>

B64Pad == "="

B64Set == {B64Chars[i] : i \in 1..Len(B64Chars)}

IsB64Char(c) == c \in B64Set

\* The six bits each character of the alphabet stands for.
B64Map == [c \in B64Set |-> (CHOOSE i \in 1..Len(B64Chars) : B64Chars[i] = c) - 1]

B64Value(c) == B64Map[c]

\* base64.b64encode(b).decode("ascii"): character j of the text.  Three bytes give
\* four characters; a last group of one or two bytes is padded with "=".
B64EncodeChar(b, j) ==
    LET g  == (j - 1) \div 4
        r  == (j - 1) % 4
        b1 == b[(3 * g) + 1]
        b2 == IF (3 * g) + 2 <= Len(b) THEN b[(3 * g) + 2] ELSE 0
        b3 == IF (3 * g) + 3 <= Len(b) THEN b[(3 * g) + 3] ELSE 0
    IN  CASE r = 0 -> B64Chars[(b1 \div 4) + 1]
          [] r = 1 -> B64Chars[((b1 % 4) * 16) + (b2 \div 16) + 1]
          [] r = 2 -> IF (3 * g) + 2 > Len(b) THEN B64Pad
                      ELSE B64Chars[((b2 % 16) * 4) + (b3 \div 64) + 1]
          [] OTHER -> IF (3 * g) + 3 > Len(b) THEN B64Pad ELSE B64Chars[(b3 % 64) + 1]

b64encode(b) == [j \in 1..(4 * ((Len(b) + 2) \div 3)) |-> B64EncodeChar(b, j)]

\* The characters the decoder looks at: those outside the alphabet are skipped.
B64Seen(s) == SelectSeq(s, LAMBDA c : IsB64Char(c) \/ c = B64Pad)

\* The alphabet characters among the first i of d.
B64Count(d, i) == Cardinality({k \in 1..i : d[k] # B64Pad})

\* The decoder stops at a padding character that completes a quad: one after
\* three characters of the quad, or the second in a row after two.
B64Stops(d, i) ==
    /\ d[i] = B64Pad
    /\ \/ B64Count(d, i) % 4 = 3
       \/ B64Count(d, i) % 4 = 2 /\ i > 1 /\ d[i - 1] = B64Pad

\* Byte k of the decoding of the alphabet characters v.
B64DecodeByte(v, k) ==
    LET g == (k - 1) \div 3
        r == (k - 1) % 3
    IN  CASE r = 0 -> (B64Value(v[(4 * g) + 1]) * 4) + (B64Value(v[(4 * g) + 2]) \div 16)
          [] r = 1 -> ((B64Value(v[(4 * g) + 2]) % 16) * 16) + (B64Value(v[(4 * g) + 3]) \div 4)
          [] OTHER -> ((B64Value(v[(4 * g) + 3]) % 4) * 64) + B64Value(v[(4 * g) + 4])

\* base64.b64decode(s), not validating: [ok, bytes]; ok = FALSE is the error it
\* raises: ValueError on text that is not ASCII, binascii.Error when the input ends
\* inside a quad that no padding completes.
b64decode(s) ==
    IF \E i \in 1..Len(s) : ~IsAscii(s[i]) THEN [ok |-> FALSE, bytes |-> <<>>]
    ELSE LET d     == B64Seen(s)
             stops == {i \in 1..Len(d) : B64Stops(d, i)}
             upto  == IF stops = {} THEN Len(d) ELSE CHOOSE i \in stops : \A j \in stops : i <= j
             v     == SelectSeq(SubSeq(d, 1, upto), LAMBDA c : c # B64Pad)
         IN  IF stops = {} /\ Len(v) % 4 # 0 THEN [ok |-> FALSE, bytes |-> <<>>]
             ELSE [ok |-> TRUE, bytes |-> [k \in 1..((Len(v) * 6) \div 8) |-> B64DecodeByte(v, k)]]

(***************************************************************************)
(* The binary picture block (mutagen.flac.Picture)                         *)
(***************************************************************************)

\* struct.pack(">I", n)
U32(n) == <<(n \div 16777216) % 256, (n \div 65536) % 256, (n \div 256) % 256, n % 256>>

\* struct.unpack(">I", b) on exactly four bytes.
FromU32(b) == (b[1] * 16777216) + (b[2] * 65536) + (b[3] * 256) + b[4]

\* Picture(): the fields of a new picture object.
NewPicture == [type |-> 0, mime |-> <<>>, desc |-> <<>>, dims |-> <<0, 0, 0, 0>>,
               data |-> <<>>, fmt |-> 0]

\* Picture.write(): type, mime length and mime, description length and description,
\* width, height, depth, colors, data length and data.
PictureWrite(pic) ==
    U32(pic.type) \o U32(Len(pic.mime)) \o Encode(pic.mime)
    \o U32(Len(pic.desc)) \o Encode(pic.desc)
    \o U32(pic.dims[1]) \o U32(pic.dims[2]) \o U32(pic.dims[3]) \o U32(pic.dims[4])
    \o U32(Len(pic.data)) \o pic.data

\* Picture(raw): [ok, pic]; ok = FALSE is the error raised when a fixed-size header
\* is cut short.  A string or the data cut short is read as far as it goes.
PictureLoad(raw) ==
    IF Len(raw) < 8 THEN [ok |-> FALSE, pic |-> NewPicture]
    ELSE LET type == FromU32(SubSeq(raw, 1, 4))
             mlen == FromU32(SubSeq(raw, 5, 8))
             mime == Take(raw, 9, mlen)
             p2   == 9 + Len(mime)
         IN  IF Len(raw) < p2 + 3 THEN [ok |-> FALSE, pic |-> NewPicture]
             ELSE LET dlen == FromU32(SubSeq(raw, p2, p2 + 3))
                      desc == Take(raw, p2 + 4, dlen)
                      p3   == p2 + 4 + Len(desc)
                  IN  IF Len(raw) < p3 + 19 THEN [ok |-> FALSE, pic |-> NewPicture]
                      ELSE [ok  |-> TRUE,
                            pic |-> [type |-> type, mime |-> Decode(mime),
                                     desc |-> Decode(desc),
                                     dims |-> <<FromU32(SubSeq(raw, p3, p3 + 3)),
                                                FromU32(SubSeq(raw, p3 + 4, p3 + 7)),
                                                FromU32(SubSeq(raw, p3 + 8, p3 + 11)),
                                                FromU32(SubSeq(raw, p3 + 12, p3 + 15))>>,
                                     data |-> Take(raw, p3 + 20,
                                                   FromU32(SubSeq(raw, p3 + 16, p3 + 19))),
                                     fmt  |-> 0]]

(***************************************************************************)
(* Signature sniffing and classification                                   *)
(***************************************************************************)

ImageJpeg == <<"i", "m", "a", "g", "e", "/", "j", "p", "e", "g">>

ImagePng == <<"i", "m", "a", "g", "e", "/", "p", "n", "g">>

JpegMagic == <<255, 216, 255>>

PngMagic == <<137, 80, 78, 71, 13, 10, 26, 10>>

\* A test of the first byte only.
GuessMimeFirstByte(data) ==
    IF data # <<>> /\ data[1] = PngMagic[1] THEN ImagePng ELSE ImageJpeg

guess_mime_from_bytes(data) ==
    IF StartsWith(data, JpegMagic) THEN ImageJpeg
    ELSE IF StartsWith(data, PngMagic) THEN ImagePng
    ELSE ImageJpeg

\* The index of the last "." of a name, 0 when it has none (str.rfind, 1-based).
RECURSIVE RFindDot(_)
RFindDot(name) == IF name = <<>> THEN 0
                  ELSE IF name[Len(name)] = "." THEN Len(name)
                  ELSE RFindDot(SubSeq(name, 1, Len(name) - 1))

\* The index of the last "/" of a path, 0 when it has none.
LastSlash(path) ==
    IF \E i \in 1..Len(path) : path[i] = "/"
    THEN CHOOSE i \in 1..Len(path) : path[i] = "/" /\ \A j \in (i + 1)..Len(path) : path[j] # "/"
    ELSE 0

\* Path(path).name: the final component; empty components and "." components
\* are dropped when the path is parsed.
RECURSIVE PathName(_)
PathName(path) ==
    LET s    == LastSlash(path)
        part == SubSeq(path, s + 1, Len(path))
    IN  IF part # <<>> /\ part # <<".">> THEN part
        ELSE IF s = 0 THEN <<>>
        ELSE PathName(SubSeq(path, 1, s - 1))

\* Path(path).suffix: the name from its last dot, unless that dot starts or ends it.
Suffix(path) ==
    LET name == PathName(path)
        i    == RFindDot(name)
    IN  IF i > 1 /\ i < Len(name) THEN SubSeq(name, i, Len(name)) ELSE <<>>

\* str.lstrip(".")
RECURSIVE LStripDots(_)
LStripDots(s) == IF s # <<>> /\ Head(s) = "." THEN LStripDots(Tail(s)) ELSE s

\* The kind when the suffix is not put in lower case.
GetAudioKindExact(path) == LStripDots(Suffix(path))

get_audio_kind(path) == LStripDots(Lower(Suffix(path)))

KindMp3 == <<"m", "p", "3">>

KindFlac == <<"f", "l", "a", "c">>

KindOgg == <<"o", "g", "g">>

KindM4a == <<"m", "4", "a">>

\* AUDIO_EXTS
AUDIO_EXTS == {<<".">> \o KindMp3, <<".">> \o KindFlac, <<".">> \o KindOgg, <<".">> \o KindM4a}

(***************************************************************************)
(* Files                                                                   *)
(*                                                                         *)
(* What the tag library sees of a file:                                    *)
(*   parse   the container can be parsed (FALSE: the loader raises);       *)
(*   tagged  it carries a tag container (mp3: an ID3v2 header; flac: a     *)
(*           comment block; m4a: an item list; ogg: always, the comment    *)
(*           header is part of the stream);                                *)
(*   tags    the text entries in file order: ID3 text frames, Vorbis       *)
(*           comments, MP4 atoms.  A key with several values is several    *)
(*           entries.  pair is the (track, total) of an MP4 trkn entry;    *)
(*   pics    the embedded pictures in file order: ID3 APIC frames, flac    *)
(*           picture blocks, MP4 covr entries (fmt is their format tag).   *)
(*           An ogg file keeps its pictures among the comments.            *)
(***************************************************************************)

Entry(k, v) == [key |-> k, val |-> v, pair |-> <<0, 0>>]

PairEntry(k, track, total) == [key |-> k, val |-> <<>>, pair |-> <<track, total>>]

\* Key comparison: exact (ID3, MP4) or ignoring case (Vorbis comments).
KeyMatch(a, b, ci) ==
    IF ci THEN Len(a) = Len(b) /\ \A i \in 1..Len(a) : LowerChar(a[i]) = LowerChar(b[i])
    ELSE a = b

\* The entries stored under a key, in order.
RECURSIVE EntriesOf(_, _, _)
EntriesOf(tags, k, ci) ==
    IF tags = <<>> THEN <<>>
    ELSE (IF KeyMatch(Head(tags).key, k, ci) THEN <<Head(tags)>> ELSE <<>>)
         \o EntriesOf(Tail(tags), k, ci)

\* key in tags
HasKey(tags, k, ci) == \E i \in 1..Len(tags) : KeyMatch(tags[i].key, k, ci)

\* del tags[key]: every entry under the key goes.
RECURSIVE DelKey(_, _, _)
DelKey(tags, k, ci) ==
    IF tags = <<>> THEN <<>>
    ELSE (IF KeyMatch(Head(tags).key, k, ci) THEN <<>> ELSE <<Head(tags)>>)
         \o DelKey(Tail(tags), k, ci)

\* tags[key] = [entry]: the entries under the key are replaced by the one given.
SetKey(tags, e, ci) == Append(DelKey(tags, e.key, ci), e)

\* The values stored under a key: tags.get(key) as a list, <<>> for None.
ValuesOf(tags, k, ci) == LET es == EntriesOf(tags, k, ci) IN [i \in 1..Len(es) |-> es[i].val]

\* safe_str, on the list tags.get(key) returns (None and the empty list give "").
safe_str(vals) == IF vals = <<>> THEN <<>> ELSE vals[1]

(***************************************************************************)
(* Canonical tags                                                          *)
(***************************************************************************)

CANON_FIELDS == <<"title", "artist", "album", "year", "track", "genre", "comment",
                  "albumartist", "composer">>

Fields == {CANON_FIELDS[i] : i \in 1..Len(CANON_FIELDS)}

\* out = {k: "" for k, _ in CANON_FIELDS}
EmptyTags == [f \in Fields |-> <<>>]

(***************************************************************************)
(* mp3: the EasyID3 view of the ID3 frames                                 *)
(***************************************************************************)

Frame_TIT2 == <<"T", "I", "T", "2">>

Frame_TPE1 == <<"T", "P", "E", "1">>

Frame_TALB == <<"T", "A", "L", "B">>

Frame_TDRC == <<"T", "D", "R", "C">>

Frame_TRCK == <<"T", "R", "C", "K">>

Frame_TCON == <<"T", "C", "O", "N">>

Frame_TPE2 == <<"T", "P", "E", "2">>

Frame_TCOM == <<"T", "C", "O", "M">>

\* The key of a comment frame in the ID3 object: "COMM:<description>:<language>".
CommKey(desc, lang) == <<"C", "O", "M", "M", ":">> \o desc \o <<":">> \o lang

\* "COMM::eng"
Frame_COMM_eng == CommKey(<<>>, <<"e", "n", "g">>)

\* The EasyID3 keys the code uses that EasyID3 registers, with their frames.
\* "comment" and "year" are not registered keys.
EasyFrame == [title |-> Frame_TIT2, artist |-> Frame_TPE1, album |-> Frame_TALB,
              date |-> Frame_TDRC, tracknumber |-> Frame_TRCK, genre |-> Frame_TCON,
              albumartist |-> Frame_TPE2, composer |-> Frame_TCOM]

EasyValid(key) == key \in DOMAIN EasyFrame

\* The separators of an ID3 time stamp: - T : / . and runs of white space.
IsStampSep(c) == c \in {"-", "T", ":", "/", "."}

RECURSIVE SplitStamp(_, _)
SplitStamp(rest, cur) ==
    IF rest = <<>> THEN <<cur>>
    ELSE IF IsStampSep(Head(rest)) THEN <<cur>> \o SplitStamp(Tail(rest), <<>>)
    ELSE IF IsSpace(Head(rest)) THEN <<cur>> \o SplitStamp(LStrip(rest), <<>>)
    ELSE SplitStamp(Tail(rest), Append(cur, Head(rest)))

\* "%0wd" % n
RECURSIVE ZeroPad(_, _)
ZeroPad(s, w) == IF Len(s) >= w THEN s ELSE ZeroPad(<<"0">> \o s, w)

StampSeps == <<"-", "-", " ", ":", ":", "x">>

\* The text of the first i..6 parts of a stamp, each followed by its separator,
\* up to the first part that is no number.
RECURSIVE StampPieces(_, _)
StampPieces(parts, i) ==
    IF i > 6 \/ ~IsDigit(parts[i]) THEN <<>>
    ELSE ZeroPad(ToStr(ToInt(parts[i])), IF i = 1 THEN 4 ELSE 2) \o <<StampSeps[i]>>
         \o StampPieces(parts, i + 1)

\* ID3TimeStamp(text).text: the text is split into year, month, day, hour, minute,
\* second, and written back from the leading numeric parts.
StampText(text) ==
    LET parts  == SplitStamp(text \o <<":", ":", ":", ":", ":">>, <<>>)
        pieces == StampPieces(parts, 1)
    IN  IF pieces = <<>> THEN <<>> ELSE SubSeq(pieces, 1, Len(pieces) - 1)

\* The head of the ID3v1 genre table (TCON.GENRES), indices 0..9.
GENRES == << <<"B", "l", "u", "e", "s">>,
             <<"C", "l", "a", "s", "s", "i", "c", " ", "R", "o", "c", "k">>,
             <<"C", "o", "u", "n", "t", "r", "y">>,
             <<"D", "a", "n", "c", "e">>,
             <<"D", "i", "s", "c", "o">>,
             <<"F", "u", "n", "k">>,
             <<"G", "r", "u", "n", "g", "e">>,
             <<"H", "i", "p", "-", "H", "o", "p">>,
             <<"J", "a", "z", "z">>,
             <<"M", "e", "t", "a", "l">> >>

\* TCON.genres: a value that is a number below 256 reads as the genre of that
\* index, an empty value is dropped, other text reads as itself.  (Values that
\* begin with a parenthesised reference, which the library also expands, and
\* indices beyond the head of the table are outside the values of the model.)
RECURSIVE Genres(_)
Genres(vals) ==
    IF vals = <<>> THEN <<>>
    ELSE LET v == Head(vals) IN
         (IF IsDigit(v) /\ ToInt(v) < Len(GENRES) THEN <<GENRES[ToInt(v) + 1]>>
          ELSE IF v = <<>> THEN <<>>
          ELSE <<v>>)
         \o Genres(Tail(vals))

\* EasyID3(path), or EasyID3() when loading raises: the frames the object holds.
EasyLoad(f) == IF f.parse /\ f.tagged THEN f.tags ELSE <<>>

\* audio.get(key): the list of values, <<>> for None (a missing frame or a key
\* EasyID3 does not register).
EasyGet(frames, key) ==
    IF ~EasyValid(key) THEN <<>>
    ELSE LET vals == ValuesOf(frames, EasyFrame[key], FALSE) IN
         CASE key = "date"  -> [i \in 1..Len(vals) |-> StampText(vals[i])]
           [] key = "genre" -> Genres(vals)
           [] OTHER         -> vals

\* key in audio
EasyHas(frames, key) == EasyValid(key) /\ HasKey(frames, EasyFrame[key], FALSE)

\* audio[key] = [val] / del audio[key]: [err, frames].  An unregistered key raises
\* EasyID3KeyError on assignment.
EasySetOrDel(r, key, val) ==
    IF r.err # "" THEN r
    ELSE IF val # <<>> THEN
        IF ~EasyValid(key) THEN [r EXCEPT !.err = "EasyID3KeyError"]
        ELSE [r EXCEPT !.frames =
                 SetKey(r.frames,
                        Entry(EasyFrame[key], IF key = "date" THEN StampText(val) ELSE val),
                        FALSE)]
    ELSE IF EasyHas(r.frames, key) THEN [r EXCEPT !.frames = DelKey(r.frames, EasyFrame[key], FALSE)]
    ELSE r

(***************************************************************************)
(* Vorbis comment keys (flac, ogg) and MP4 atoms (m4a)                     *)
(***************************************************************************)

\* The comment key of each canonical field.
VorbisKey == [title       |-> <<"T", "I", "T", "L", "E">>,
              artist      |-> <<"A", "R", "T", "I", "S", "T">>,
              album       |-> <<"A", "L", "B", "U", "M">>,
              year        |-> <<"D", "A", "T", "E">>,
              track       |-> <<"T", "R", "A", "C", "K", "N", "U", "M", "B", "E", "R">>,
              genre       |-> <<"G", "E", "N", "R", "E">>,
              comment     |-> <<"C", "O", "M", "M", "E", "N", "T">>,
              albumartist |-> <<"A", "L", "B", "U", "M", "A", "R", "T", "I", "S", "T">>,
              composer    |-> <<"C", "O", "M", "P", "O", "S", "E", "R">>]

\* The atom of each canonical field; "(c)" stands for the copyright sign (\xa9).
AtomKey == [title       |-> <<"(c)", "n", "a", "m">>,
            artist      |-> <<"(c)", "A", "R", "T">>,
            album       |-> <<"(c)", "a", "l", "b">>,
            year        |-> <<"(c)", "d", "a", "y">>,
            track       |-> <<"t", "r", "k", "n">>,
            genre       |-> <<"(c)", "g", "e", "n">>,
            comment     |-> <<"(c)", "c", "m", "t">>,
            albumartist |-> <<"a", "A", "R", "T">>,
            composer    |-> <<"(c)", "w", "r", "t">>]

\* The largest number an MP4 track pair can store; saving a larger one raises.
MaxPairValue == 65535

(***************************************************************************)
(* get_tags                                                                *)
(***************************************************************************)

\* The result of a call: err = "" when it returns, else the error it raises.
TagsResult(e, t) == [err |-> e, tags |-> t]

\* The mp3 branch.  Loading never raises here: every error gives an empty EasyID3.
GetTagsMp3(f) ==
    LET audio == EasyLoad(f)
        date  == safe_str(EasyGet(audio, "date"))
    IN  TagsResult("",
          [title       |-> safe_str(EasyGet(audio, "title")),
           artist      |-> safe_str(EasyGet(audio, "artist")),
           album       |-> safe_str(EasyGet(audio, "album")),
           year        |-> IF date # <<>> THEN date ELSE safe_str(EasyGet(audio, "year")),
           track       |-> safe_str(EasyGet(audio, "tracknumber")),
           genre       |-> safe_str(EasyGet(audio, "genre")),
           comment     |-> safe_str(EasyGet(audio, "comment")),
           albumartist |-> safe_str(EasyGet(audio, "albumartist")),
           composer    |-> safe_str(EasyGet(audio, "composer"))])

\* The flac branch without the defaults: only the fields the file holds.
GetTagsFlacPresent(f) ==
    IF ~f.parse THEN TagsResult("ParseError", EmptyTags)
    ELSE LET tags == IF f.tagged THEN f.tags ELSE <<>>
         IN  TagsResult("", [k \in {x \in Fields : HasKey(tags, VorbisKey[x], TRUE)} |->
                                safe_str(ValuesOf(tags, VorbisKey[k], TRUE))])

\* The flac branch: FLAC(path) raises on a container it cannot parse.
GetTagsFlac(f) ==
    IF ~f.parse THEN TagsResult("ParseError", EmptyTags)
    ELSE LET tags == IF f.tagged THEN f.tags ELSE <<>>
         IN  TagsResult("", [k \in Fields |-> safe_str(ValuesOf(tags, VorbisKey[k], TRUE))])

\* g(key) of the ogg branch: the key as given, in upper case, in lower case; the
\* comment dictionary itself compares keys ignoring case.
OggG(tags, key) ==
    IF HasKey(tags, key, TRUE) THEN safe_str(ValuesOf(tags, key, TRUE))
    ELSE IF HasKey(tags, Upper(key), TRUE) THEN safe_str(ValuesOf(tags, Upper(key), TRUE))
    ELSE IF HasKey(tags, Lower(key), TRUE) THEN safe_str(ValuesOf(tags, Lower(key), TRUE))
    ELSE <<>>

\* The ogg branch.
GetTagsOgg(f) ==
    IF ~f.parse THEN TagsResult("ParseError", EmptyTags)
    ELSE LET tags == IF f.tagged THEN f.tags ELSE <<>>
         IN  TagsResult("", [k \in Fields |-> OggG(tags, VorbisKey[k])])

\* A track read as "track/total".
M4aTrackWithTotal(tags) ==
    LET trkn == EntriesOf(tags, AtomKey["track"], FALSE)
    IN  IF trkn # <<>> /\ trkn[1].pair[1] # 0
        THEN ToStr(trkn[1].pair[1]) \o <<"/">> \o ToStr(trkn[1].pair[2])
        ELSE <<>>

\* The track of the m4a branch: the first number of the first trkn pair, "" when
\* it is 0 or there is no pair.
M4aTrack(tags) ==
    LET trkn == EntriesOf(tags, AtomKey["track"], FALSE)
    IN  IF trkn # <<>> /\ trkn[1].pair[1] # 0 THEN ToStr(trkn[1].pair[1]) ELSE <<>>

\* The m4a branch.
GetTagsM4a(f) ==
    IF ~f.parse THEN TagsResult("ParseError", EmptyTags)
    ELSE LET tags == IF f.tagged THEN f.tags ELSE <<>>
         IN  TagsResult("", [k \in Fields |->
                                IF k = "track" THEN M4aTrack(tags)
                                ELSE safe_str(ValuesOf(tags, AtomKey[k], FALSE))])

\* get_tags(path), on the file f the path names.
get_tags(path, f) ==
    LET kind == get_audio_kind(path) IN
    CASE kind = KindMp3  -> GetTagsMp3(f)
      [] kind = KindFlac -> GetTagsFlac(f)
      [] kind = KindOgg  -> GetTagsOgg(f)
      [] kind = KindM4a  -> GetTagsM4a(f)
      [] OTHER           -> TagsResult("", EmptyTags)

(***************************************************************************)
(* set_tags                                                                *)
(***************************************************************************)

\* norm(v)
norm(v) == Strip(v)

\* t = {k: norm(tags_in.get(k, "")) for k, _ in CANON_FIELDS}
NormTags(tags_in) == [k \in Fields |-> norm(tags_in[k])]

\* The result of a write: err = "" and the file as saved, or the error and the
\* file as it was (the save is the last step of every branch).
WriteResult(e, f) == [err |-> e, file |-> f]

\* The EasyID3 key each canonical field is written under, in the order written.
EasyKeyOf == [title |-> "title", artist |-> "artist", album |-> "album", year |-> "date",
              track |-> "tracknumber", genre |-> "genre", comment |-> "comment",
              albumartist |-> "albumartist", composer |-> "composer"]

\* The nine set_or_del calls of the mp3 branch, from field i on.
RECURSIVE EasySetAll(_, _, _)
EasySetAll(r, t, i) ==
    IF i > Len(CANON_FIELDS) THEN r
    ELSE EasySetAll(EasySetOrDel(r, EasyKeyOf[CANON_FIELDS[i]], t[CANON_FIELDS[i]]), t, i + 1)

\* The mp3 branch saving after each field: the fields set before one that raises
\* are in the file.
SetTagsMp3Each(f, t) ==
    LET r == EasySetAll([err |-> "", frames |-> EasyLoad(f)], t, 1)
    IN  IF ~f.parse THEN WriteResult("ParseError", f)
        ELSE WriteResult(r.err, [f EXCEPT !.tagged = TRUE, !.tags = r.frames])

\* The mp3 branch: the frames are edited in memory and saved at the end; the save
\* raises on a header it cannot parse, and writes a header where there was none.
SetTagsMp3(f, t) ==
    LET r == EasySetAll([err |-> "", frames |-> EasyLoad(f)], t, 1)
    IN  IF r.err # "" THEN WriteResult(r.err, f)
        ELSE IF ~f.parse THEN WriteResult("ParseError", f)
        ELSE WriteResult("", [f EXCEPT !.tagged = TRUE, !.tags = r.frames])

\* set_or_del of the flac and ogg branches, over all nine fields from field i on.
RECURSIVE VorbisSetAll(_, _, _)
VorbisSetAll(tags, t, i) ==
    IF i > Len(CANON_FIELDS) THEN tags
    ELSE LET k == Upper(VorbisKey[CANON_FIELDS[i]])
             v == t[CANON_FIELDS[i]]
         IN  VorbisSetAll(IF v # <<>> THEN SetKey(tags, Entry(k, v), TRUE)
                          ELSE IF HasKey(tags, k, TRUE) THEN DelKey(tags, k, TRUE)
                          ELSE tags,
                          t, i + 1)

\* The flac branch (add_tags() when the file has no comment block).
SetTagsFlac(f, t) ==
    IF ~f.parse THEN WriteResult("ParseError", f)
    ELSE WriteResult("", [f EXCEPT !.tagged = TRUE,
                                   !.tags = VorbisSetAll(IF f.tagged THEN f.tags ELSE <<>>, t, 1)])

\* The ogg branch writing a comment block of the nine fields only.
SetTagsOggFresh(f, t) ==
    IF ~f.parse THEN WriteResult("ParseError", f)
    ELSE WriteResult("", [f EXCEPT !.tagged = TRUE, !.tags = VorbisSetAll(<<>>, t, 1)])

\* The ogg branch.
SetTagsOgg(f, t) ==
    IF ~f.parse THEN WriteResult("ParseError", f)
    ELSE WriteResult("", [f EXCEPT !.tagged = TRUE,
                                   !.tags = VorbisSetAll(IF f.tagged THEN f.tags ELSE <<>>, t, 1)])

\* The value the m4a branch passes to set_or_del for a field: the entry to store,
\* or none (some = FALSE) to delete.  The track is stored only when it is a
\* number, as the pair (number, 0).
M4aValue(k, v) ==
    IF k = "track"
    THEN [some |-> IsDigit(v), entry |-> PairEntry(AtomKey[k], IF IsDigit(v) THEN ToInt(v) ELSE 0, 0)]
    ELSE [some |-> v # <<>>, entry |-> Entry(AtomKey[k], v)]

RECURSIVE M4aSetAll(_, _, _)
M4aSetAll(tags, t, i) ==
    IF i > Len(CANON_FIELDS) THEN tags
    ELSE LET k == CANON_FIELDS[i]
             x == M4aValue(k, t[k])
         IN  M4aSetAll(IF x.some THEN SetKey(tags, x.entry, FALSE)
                       ELSE IF HasKey(tags, AtomKey[k], FALSE) THEN DelKey(tags, AtomKey[k], FALSE)
                       ELSE tags,
                       t, i + 1)

\* mp.save(): a track pair with a number that does not fit 16 bits cannot be rendered.
M4aRenders(tags) ==
    \A i \in 1..Len(tags) : tags[i].pair[1] <= MaxPairValue /\ tags[i].pair[2] <= MaxPairValue

\* The m4a branch (add_tags() when the file has no item list).
SetTagsM4a(f, t) ==
    IF ~f.parse THEN WriteResult("ParseError", f)
    ELSE LET tags == M4aSetAll(IF f.tagged THEN f.tags ELSE <<>>, t, 1)
         IN  IF ~M4aRenders(tags) THEN WriteResult("MP4MetadataValueError", f)
             ELSE WriteResult("", [f EXCEPT !.tagged = TRUE, !.tags = tags])

\* set_tags(path, tags_in), on the file f the path names.
set_tags(path, f, tags_in) ==
    LET kind == get_audio_kind(path)
        t    == NormTags(tags_in)
    IN  CASE kind = KindMp3  -> SetTagsMp3(f, t)
          [] kind = KindFlac -> SetTagsFlac(f, t)
          [] kind = KindOgg  -> SetTagsOgg(f, t)
          [] kind = KindM4a  -> SetTagsM4a(f, t)
          [] OTHER           -> WriteResult("RuntimeError", f)

(***************************************************************************)
(* get_cover_bytes                                                         *)
(***************************************************************************)

\* The picture type of a front cover.
FrontCover == 3

\* MP4Cover.FORMAT_JPEG and MP4Cover.FORMAT_PNG
FORMAT_JPEG == 13

FORMAT_PNG == 14

CoverDesc == <<"C", "o", "v", "e", "r">>

\* The two spellings of the picture comment key the code names.
MBP_LOWER == <<"m", "e", "t", "a", "d", "a", "t", "a", "_", "b", "l", "o", "c", "k", "_", "p", "i", "c", "t", "u", "r", "e">>

MBP_UPPER == <<"M", "E", "T", "A", "D", "A", "T", "A", "_", "B", "L", "O", "C", "K", "_", "P", "I", "C", "T", "U", "R", "E">>

\* The result of a call: the error raised, or None (some = FALSE), or (data, mime).
NoCover == [err |-> "", some |-> FALSE, data |-> <<>>, mime |-> <<>>]

CoverError(e) == [NoCover EXCEPT !.err = e]

Cover(data, mime) == [err |-> "", some |-> TRUE, data |-> data, mime |-> mime]

\* mime or guess_mime_from_bytes(data)
MimeOrGuess(mime, data) == IF mime # <<>> THEN mime ELSE guess_mime_from_bytes(data)

\* The mp3 branch: only a missing header is caught.
GetCoverMp3(f) ==
    IF ~f.parse THEN CoverError("ParseError")
    ELSE IF ~f.tagged \/ f.pics = <<>> THEN NoCover
    ELSE Cover(f.pics[1].data, MimeOrGuess(f.pics[1].mime, f.pics[1].data))

\* The flac branch returning the picture added last.
GetCoverFlacLast(f) ==
    IF ~f.parse THEN CoverError("ParseError")
    ELSE IF f.pics = <<>> THEN NoCover
    ELSE Cover(f.pics[Len(f.pics)].data,
               MimeOrGuess(f.pics[Len(f.pics)].mime, f.pics[Len(f.pics)].data))

\* The flac branch.
GetCoverFlac(f) ==
    IF ~f.parse THEN CoverError("ParseError")
    ELSE IF f.pics = <<>> THEN NoCover
    ELSE Cover(f.pics[1].data, MimeOrGuess(f.pics[1].mime, f.pics[1].data))

\* The first value found under one of the two key spellings, "" when none.
OggPictureValue(tags) ==
    IF HasKey(tags, MBP_LOWER, TRUE) THEN ValuesOf(tags, MBP_LOWER, TRUE)[1]
    ELSE IF HasKey(tags, MBP_UPPER, TRUE) THEN ValuesOf(tags, MBP_UPPER, TRUE)[1]
    ELSE <<>>

\* The ogg branch as the first revision read it: the decoded value itself, not
\* parsed as a picture block.
GetCoverOggBlock(f) ==
    IF ~f.parse THEN CoverError("ParseError")
    ELSE LET b64 == OggPictureValue(f.tags) IN
         IF b64 = <<>> THEN NoCover
         ELSE LET raw == b64decode(b64) IN
              IF ~raw.ok THEN NoCover
              ELSE Cover(raw.bytes, guess_mime_from_bytes(raw.bytes))

\* The ogg branch: the value is base64 of a picture block; any error in decoding
\* it gives None.
GetCoverOgg(f) ==
    IF ~f.parse THEN CoverError("ParseError")
    ELSE LET b64 == OggPictureValue(f.tags) IN
         IF b64 = <<>> THEN NoCover
         ELSE LET raw == b64decode(b64) IN
              IF ~raw.ok THEN NoCover
              ELSE LET p == PictureLoad(raw.bytes) IN
                   IF ~p.ok THEN NoCover
                   ELSE Cover(p.pic.data, MimeOrGuess(p.pic.mime, p.pic.data))

\* The m4a branch without the "if mp.tags" test: None has no get.
GetCoverM4aUnguarded(f) ==
    IF ~f.parse THEN CoverError("ParseError")
    ELSE IF ~f.tagged THEN CoverError("AttributeError")
    ELSE IF f.pics = <<>> THEN NoCover
    ELSE Cover(f.pics[1].data, IF f.pics[1].fmt = FORMAT_PNG THEN ImagePng ELSE ImageJpeg)

\* The m4a branch.
GetCoverM4a(f) ==
    IF ~f.parse THEN CoverError("ParseError")
    ELSE IF ~f.tagged \/ f.pics = <<>> THEN NoCover
    ELSE Cover(f.pics[1].data, IF f.pics[1].fmt = FORMAT_PNG THEN ImagePng ELSE ImageJpeg)

\* get_cover_bytes(path), on the file f the path names.
get_cover_bytes(path, f) ==
    LET kind == get_audio_kind(path) IN
    CASE kind = KindMp3  -> GetCoverMp3(f)
      [] kind = KindFlac -> GetCoverFlac(f)
      [] kind = KindOgg  -> GetCoverOgg(f)
      [] kind = KindM4a  -> GetCoverM4a(f)
      [] OTHER           -> NoCover

(***************************************************************************)
(* set_cover_bytes                                                         *)
(***************************************************************************)

\* The picture the mp3, flac and ogg branches build: type 3, "Cover".
CoverPicture(data, mime) ==
    [NewPicture EXCEPT !.type = FrontCover, !.mime = MimeOrGuess(mime, data),
                       !.desc = CoverDesc, !.data = data]

\* The mp3 branch: ID3() when there is no header; delall("APIC"), add, save.
SetCoverMp3(f, data, mime) ==
    IF ~f.parse THEN WriteResult("ParseError", f)
    ELSE WriteResult("", [f EXCEPT !.tagged = TRUE,
                                   !.tags = IF f.tagged THEN f.tags ELSE <<>>,
                                   !.pics = <<CoverPicture(data, mime)>>])

\* The flac branch without clear_pictures(): the picture is added after those held.
SetCoverFlacKeeping(f, data, mime) ==
    IF ~f.parse THEN WriteResult("ParseError", f)
    ELSE WriteResult("", [f EXCEPT !.pics = f.pics \o <<CoverPicture(data, mime)>>])

\* The flac branch: clear_pictures(), add_picture(pic), save.
SetCoverFlac(f, data, mime) ==
    IF ~f.parse THEN WriteResult("ParseError", f)
    ELSE WriteResult("", [f EXCEPT !.pics = <<CoverPicture(data, mime)>>])

\* "limpiar ambos keys posibles": both spellings are deleted when present.
OggClearPictures(tags) ==
    LET t1 == IF HasKey(tags, MBP_LOWER, TRUE) THEN DelKey(tags, MBP_LOWER, TRUE) ELSE tags
    IN  IF HasKey(t1, MBP_UPPER, TRUE) THEN DelKey(t1, MBP_UPPER, TRUE) ELSE t1

\* The ogg branch as the first revision wrote it: base64 of the image bytes.
SetCoverOggRaw(f, data, mime) ==
    IF ~f.parse THEN WriteResult("ParseError", f)
    ELSE WriteResult("", [f EXCEPT !.tags =
                            SetKey(OggClearPictures(f.tags), Entry(MBP_UPPER, b64encode(data)), TRUE)])

\* The ogg branch: base64 of the picture block under METADATA_BLOCK_PICTURE.
SetCoverOgg(f, data, mime) ==
    IF ~f.parse THEN WriteResult("ParseError", f)
    ELSE LET b64 == b64encode(PictureWrite(CoverPicture(data, mime)))
         IN  WriteResult("", [f EXCEPT !.tags =
                                 SetKey(OggClearPictures(f.tags), Entry(MBP_UPPER, b64), TRUE)])

\* The format tag when the mime is not looked at.
M4aFormatJpeg(mime) == FORMAT_JPEG

\* The format tag of the m4a branch.
M4aFormat(mime) == IF EndsWith(Lower(mime), <<"p", "n", "g">>) THEN FORMAT_PNG ELSE FORMAT_JPEG

\* The m4a branch with the format tag taken from the bytes.
SetCoverM4aSniffed(f, data, mime) ==
    IF ~f.parse THEN WriteResult("ParseError", f)
    ELSE WriteResult("", [f EXCEPT !.tagged = TRUE,
                                   !.tags = IF f.tagged THEN f.tags ELSE <<>>,
                                   !.pics = <<[NewPicture EXCEPT !.data = data,
                                                                 !.fmt = M4aFormat(guess_mime_from_bytes(data))]>>])

\* The m4a branch: add_tags() when there is no item list; covr = [one cover].
SetCoverM4a(f, data, mime) ==
    IF ~f.parse THEN WriteResult("ParseError", f)
    ELSE WriteResult("", [f EXCEPT !.tagged = TRUE,
                                   !.tags = IF f.tagged THEN f.tags ELSE <<>>,
                                   !.pics = <<[NewPicture EXCEPT !.data = data,
                                                                 !.fmt = M4aFormat(mime)]>>])

\* set_cover_bytes(path, data, mime), on the file f the path names.
set_cover_bytes(path, f, data, mime) ==
    LET kind == get_audio_kind(path) IN
    CASE kind = KindMp3  -> SetCoverMp3(f, data, mime)
      [] kind = KindFlac -> SetCoverFlac(f, data, mime)
      [] kind = KindOgg  -> SetCoverOgg(f, data, mime)
      [] kind = KindM4a  -> SetCoverM4a(f, data, mime)
      [] OTHER           -> WriteResult("RuntimeError", f)

(***************************************************************************)
(* The files and inputs of the model                                       *)
(***************************************************************************)

\* The most embedded pictures a file holds before the program touches it.
MaxPics == 2

JpegData == JpegMagic \o <<224>>

PngData == PngMagic \o <<0>>

GifData == <<71, 73, 70>>

ImageGif == <<"i", "m", "a", "g", "e", "/", "g", "i", "f">>

\* Three pictures as another program may have embedded them: a front cover with
\* its mime, a picture without mime, a picture of a third type and format.
SomePictures(fmts) ==
    << [NewPicture EXCEPT !.type = FrontCover, !.mime = ImageJpeg, !.desc = <<"f">>,
                          !.dims = <<10, 10, 24, 0>>, !.data = JpegData, !.fmt = fmts[1]],
       [NewPicture EXCEPT !.type = 0, !.data = PngData, !.fmt = fmts[2]],
       [NewPicture EXCEPT !.type = 4, !.mime = ImageGif, !.desc = <<"b">>,
                          !.data = GifData, !.fmt = fmts[3]] >>

\* The runs of consecutive entries of a list, the empty run included.
Runs(list) == {SubSeq(list, i, j) : i \in 1..Len(list), j \in 0..Len(list)}

\* Those of at most MaxPics entries.
RunsUpTo(list) == {r \in Runs(list) : Len(r) <= MaxPics}

\* Picture comments of an ogg file: a block under the upper-case key, a block
\* under the lower-case key, and a value that is no picture block.
OggPictureEntries ==
    LET pics == SomePictures(<<0, 0, 0>>) IN
    << Entry(MBP_UPPER, b64encode(PictureWrite(pics[1]))),
       Entry(MBP_LOWER, b64encode(PictureWrite(pics[2]))),
       Entry(<<"M", "e", "t", "a", "d", "a", "t", "a", "_", "B", "l", "o", "c", "k", "_", "P", "i", "c", "t", "u", "r", "e">>,
             <<"A", "A", "A", "A", "A", "w", "=", "=">>) >>

\* Text entries as another program may have written them.
Mp3Frames == << Entry(Frame_TIT2, <<"T">>), Entry(Frame_TPE1, <<"R">>),
                Entry(Frame_TDRC, <<"1", "9", "9", "9">>), Entry(Frame_TRCK, <<"4", "/", "9">>),
                Entry(Frame_TCON, <<"7">>), Entry(Frame_TCOM, <<"P">>),
                Entry(CommKey(<<>>, <<"f", "r", "a">>), <<"F">>),
                Entry(Frame_COMM_eng, <<"E">>),
                Entry(CommKey(<<"d">>, <<"e", "n", "g">>), <<"D">>) >>

VorbisUpper == << Entry(VorbisKey["title"], <<"T">>), Entry(VorbisKey["artist"], <<"R">>),
                  Entry(VorbisKey["artist"], <<"S">>),
                  Entry(VorbisKey["year"], <<"1", "9", "9", "9">>),
                  Entry(VorbisKey["track"], <<"4">>),
                  Entry(VorbisKey["comment"], <<"C">>) >>

VorbisLower == << Entry(Lower(VorbisKey["title"]), <<" ", "T">>),
                  Entry(Lower(VorbisKey["album"]), <<"L">>),
                  Entry(<<"G", "e", "n", "r", "e">>, <<"7">>),
                  Entry(Lower(VorbisKey["track"]), <<"x">>) >>

M4aAtoms == << Entry(AtomKey["title"], <<"T">>), Entry(AtomKey["artist"], <<"R">>),
               PairEntry(AtomKey["track"], 7, 12), Entry(AtomKey["year"], <<"1", "9", "9", "9">>),
               Entry(AtomKey["comment"], <<"C">>) >>

File(parse, tagged, tags, pics) == [parse |-> parse, tagged |-> tagged, tags |-> tags, pics |-> pics]

\* A container that cannot be parsed.
Corrupt == File(FALSE, FALSE, <<>>, <<>>)

\* The runs of at least one picture.
PictureRuns(list) == {r \in RunsUpTo(list) : r # <<>>}

\* The files a path of each kind may name when the program starts: a file that
\* cannot be parsed, files without tag container, files with each set of text
\* entries and no picture, and files with text entries and each run of pictures.
InitFiles(path) ==
    LET kind == get_audio_kind(path) IN
    CASE kind = KindMp3 ->
           {Corrupt, File(TRUE, FALSE, <<>>, <<>>), File(TRUE, TRUE, <<>>, <<>>)}
           \cup {File(TRUE, TRUE, Mp3Frames, p) : p \in RunsUpTo(SomePictures(<<0, 0, 0>>))}
      [] kind = KindFlac ->
           {Corrupt, File(TRUE, FALSE, <<>>, <<>>), File(TRUE, TRUE, <<>>, <<>>),
            File(TRUE, TRUE, VorbisLower, <<>>)}
           \cup {File(TRUE, FALSE, <<>>, p) : p \in PictureRuns(SomePictures(<<0, 0, 0>>))}
           \cup {File(TRUE, TRUE, VorbisUpper, p) : p \in RunsUpTo(SomePictures(<<0, 0, 0>>))}
      [] kind = KindOgg ->
           {Corrupt, File(TRUE, TRUE, <<>>, <<>>), File(TRUE, TRUE, VorbisLower, <<>>)}
           \cup {File(TRUE, TRUE, VorbisUpper \o p, <<>>) : p \in RunsUpTo(OggPictureEntries)}
      [] kind = KindM4a ->
           {Corrupt, File(TRUE, FALSE, <<>>, <<>>), File(TRUE, TRUE, <<>>, <<>>)}
           \cup {File(TRUE, TRUE, M4aAtoms, p) :
                     p \in RunsUpTo(SomePictures(<<FORMAT_JPEG, FORMAT_PNG, FORMAT_JPEG>>))}
      [] OTHER -> {Corrupt}

\* The paths of the model: one file of each kind per panel, a file that is no
\* audio file, and an audio file whose extension is in upper case.
Ext == [mp3 |-> <<".", "m", "p", "3">>, flac |-> <<".", "f", "l", "a", "c">>,
        ogg |-> <<".", "o", "g", "g">>, m4a |-> <<".", "m", "4", "a">>,
        txt |-> <<".", "t", "x", "t">>, MP3 |-> <<".", "M", "P", "3">>]

LeftPaths == {<<"l">> \o Ext[e] : e \in DOMAIN Ext}

RightPaths == {<<"r">> \o Ext[e] : e \in DOMAIN Ext}

BaseTags == [title |-> <<"t">>, artist |-> <<"r">>, album |-> <<"l">>,
             year |-> <<"2", "0", "2", "0">>, track |-> <<"7">>, genre |-> <<"g">>,
             comment |-> <<"c">>, albumartist |-> <<"b">>, composer |-> <<"p">>]

NoComment == [BaseTags EXCEPT !["comment"] = <<>>]

\* Values that are not stored as given: blank, padded, a year and a genre that are
\* numbers, a track with its total, a track that is no number, a track too large.
OddValues == { <<"title", <<" ">> >>, <<"title", <<" ", "x", " ">> >>,
               <<"year", <<"9">> >>, <<"genre", <<"9">> >>,
               <<"track", <<"3", "/", "4">> >>, <<"track", <<"x">> >>,
               <<"track", <<"7", "0", "0", "0", "0">> >>,
               <<"comment", <<" ", "c">> >> }

\* The tag sets given to set_tags: every field set, every field but the comment
\* set, one field left empty, one field with an odd value, every field but the
\* title set, another track, and no field set.
TagInputs ==
    {BaseTags, NoComment, EmptyTags}
    \cup {[NoComment EXCEPT ![f] = <<>>] : f \in Fields}
    \cup {[NoComment EXCEPT ![o[1]] = o[2]] : o \in OddValues}
    \cup {[BaseTags EXCEPT !["title"] = <<>>], [NoComment EXCEPT !["track"] = <<"3">>]}

\* The files of the runs that mix operations on both panels: a file of each
\* kind with text entries and one picture.
FullFile(path) ==
    LET kind == get_audio_kind(path) IN
    CASE kind = KindMp3  -> File(TRUE, TRUE, Mp3Frames, SubSeq(SomePictures(<<0, 0, 0>>), 1, 1))
      [] kind = KindFlac -> File(TRUE, TRUE, VorbisUpper, SubSeq(SomePictures(<<0, 0, 0>>), 1, 1))
      [] kind = KindOgg  -> File(TRUE, TRUE, VorbisUpper \o SubSeq(OggPictureEntries, 1, 1), <<>>)
      [] kind = KindM4a  -> File(TRUE, TRUE, M4aAtoms,
                                 SubSeq(SomePictures(<<FORMAT_JPEG, FORMAT_PNG, FORMAT_JPEG>>), 1, 1))
      [] OTHER           -> Corrupt

PairTags == {NoComment}

\* Paths given to get_audio_kind: names with and without directory, with dots
\* inside, starting with a dot, ending in "/" or "/.", each with each ending.
PathStems == { <<"a">>, <<"a", ".", "b">>, <<>>, <<".">>, <<"d", ".", "m", "p", "3", "/", "a">>,
               <<"a", ".", "f", "l", "a", "c">> }

PathEndings == { <<".", "m", "p", "3">>, <<".", "M", "P", "3">>, <<".", "M", "p", "3">>,
                 <<".", "f", "l", "a", "c">>, <<".", "F", "L", "A", "C">>,
                 <<".", "o", "g", "g">>, <<".", "O", "g", "g">>,
                 <<".", "m", "4", "a">>, <<".", "M", "4", "A">>,
                 <<".", "t", "x", "t">>, <<".", "m", "p", "4">>, <<".", "m", "p">>,
                 <<".", "m", "p", "3", "x">>, <<".", "m", "p", "3", ".">>,
                 <<".", "m", "p", "3", "/">>, <<".", "o", "g", "g", "/", ".">>,
                 <<"m", "p", "3">>, <<".">>, <<>> }

PathInputs == {st \o e : st \in PathStems, e \in PathEndings}

\* Bytes given to guess_mime_from_bytes: every prefix of a JPEG and of a PNG
\* start, each of them with one byte changed, and another format.
Prefixes(b) == {SubSeq(b, 1, n) : n \in 0..Len(b)}

Altered(b) == {[b EXCEPT ![i] = 0] : i \in 1..Len(b)}

ByteInputs ==
    Prefixes(JpegData) \cup Prefixes(PngData) \cup Altered(JpegData) \cup Altered(PngData)
    \cup {GifData, <<PngMagic[1], 216, 255>>}

DataInputs == {JpegData, PngData, GifData, <<>>}

MimeInputs == {ImageJpeg, ImagePng, ImageGif, <<>>, <<"I", "M", "A", "G", "E", "/", "P", "N", "G">>}

(***************************************************************************)
(* State                                                                   *)
(*   files  the content of each file, by path;                             *)
(*   left   the path selected in the tree of the left panel, "" when none; *)
(*   right  the same for the right panel;                                  *)
(*   last   the last call or handler run: its arguments, what it returned  *)
(*          or raised, the message box it showed and, in order, the codec  *)
(*          calls it made (io); after set_cover_bytes, the cover entries   *)
(*          the file held before the call (had); after get_audio_kind, the *)
(*          kind it returned (kind).                                       *)
(***************************************************************************)
VARIABLES files, left, right, last

vars == <<files, left, right, last>>

NoArg == [some |-> FALSE, data |-> <<>>, mime |-> <<>>]

CoverArg(data, mime) == [some |-> TRUE, data |-> data, mime |-> mime]

Last(op, path, src, tags, cover, err, notice, io) ==
    [op |-> op, path |-> path, src |-> src, tags |-> tags, cover |-> cover,
     err |-> err, notice |-> notice, io |-> io, had |-> 0, kind |-> <<>>]

\* The cover entries the container of a file holds: picture frames (mp3), picture
\* blocks (flac), values under the picture key in any spelling (ogg), covers (m4a).
CoverEntries(path, f) ==
    IF get_audio_kind(path) = KindOgg THEN Len(EntriesOf(f.tags, MBP_UPPER, TRUE))
    ELSE Len(f.pics)

Idle == Last("", <<>>, <<>>, EmptyTags, NoArg, "", "", <<>>)

Io(f, p) == [f |-> f, p |-> p]

\* is_audio_file(path)
is_audio_file(path) == Lower(Suffix(path)) \in AUDIO_EXTS /\ path \in DOMAIN files

\* FilePanel.selected_file_path(), for the path selected in the tree.
selected_file_path(sel) == IF sel # <<>> /\ is_audio_file(sel) THEN sel ELSE <<>>

\* The files two selections name; one file when both name the same path.
Selected(lp, lf, rp, rf) == [p \in ({lp, rp} \ {<<>>}) |-> IF p = lp THEN lf ELSE rf]

\* The application: a selection (or none) in each panel.
Init ==
    /\ \E lp \in LeftPaths \cup {<<>>}, rp \in RightPaths \cup {<<>>} :
          /\ left = lp
          /\ right = rp
          /\ \E lf \in InitFiles(lp), rf \in InitFiles(rp) : files = Selected(lp, lf, rp, rf)
    /\ last = Idle

\* The codec called directly on one file.
InitCodec ==
    /\ left = <<>>
    /\ right = <<>>
    /\ \E p \in RightPaths : \E f \in InitFiles(p) : files = Selected(<<>>, f, p, f)
    /\ last = Idle

(***************************************************************************)
(* The first revision: get_tags and extract_cover of dual_audio_tag_manager *)
(***************************************************************************)

\* AUDIO_EXT, without the dots.
AUDIO_EXT == <<KindMp3, KindFlac, KindOgg, KindM4a>>

\* The keys of the mapping the first revision's get_tags fills.
DataKeys == {"title", "artist", "album", "date", "track", "genre", "comment",
             "albumartist", "composer"}

EmptyData == [k \in DataKeys |-> <<>>]

\* path.lower().endswith("." + kind)
PathEndsWith(path, kind) == EndsWith(Lower(path), <<".">> \o kind)

\* sep.join(vals)
RECURSIVE Join(_, _)
Join(vals, sep) ==
    IF vals = <<>> THEN <<>>
    ELSE IF Len(vals) = 1 THEN vals[1]
    ELSE vals[1] \o sep \o Join(Tail(vals), sep)

\* str(tags.get(id, "")): the texts of the frame joined by NUL, those of a time
\* stamp frame joined by ","; "" when the frame is missing.
FrameStr(frames, id) ==
    LET vals == ValuesOf(frames, id, FALSE) IN
    IF id = Frame_TDRC THEN Join([i \in 1..Len(vals) |-> StampText(vals[i])], <<",">>)
    ELSE Join(vals, <<Chr(0)>>)

\* The comment key read for each key of the mapping: k.upper().
DataVorbisKey == [title       |-> <<"T", "I", "T", "L", "E">>,
                  artist      |-> <<"A", "R", "T", "I", "S", "T">>,
                  album       |-> <<"A", "L", "B", "U", "M">>,
                  date        |-> <<"D", "A", "T", "E">>,
                  track       |-> <<"T", "R", "A", "C", "K">>,
                  genre       |-> <<"G", "E", "N", "R", "E">>,
                  comment     |-> <<"C", "O", "M", "M", "E", "N", "T">>,
                  albumartist |-> <<"A", "L", "B", "U", "M", "A", "R", "T", "I", "S", "T">>,
                  composer    |-> <<"C", "O", "M", "P", "O", "S", "E", "R">>]

\* str(audio.get("trkn", [""])[0]): the pair as Python prints a tuple.
PairStr(tags) ==
    LET trkn == EntriesOf(tags, AtomKey["track"], FALSE) IN
    IF trkn = <<>> THEN <<>>
    ELSE <<"(">> \o ToStr(trkn[1].pair[1]) \o <<",", " ">> \o ToStr(trkn[1].pair[2]) \o <<")">>

\* get_tags(audio, path) of the first revision, audio being what File(path) gave
\* for the file f.  Every error is swallowed: the values stay "".
get_tags_rev1(path, f) ==
    LET tags == IF f.tagged THEN f.tags ELSE <<>> IN
    IF PathEndsWith(path, KindMp3) THEN
        IF ~(f.parse /\ f.tagged) THEN EmptyData
        ELSE [title       |-> FrameStr(tags, Frame_TIT2),
              artist      |-> FrameStr(tags, Frame_TPE1),
              album       |-> FrameStr(tags, Frame_TALB),
              date        |-> FrameStr(tags, Frame_TDRC),
              track       |-> FrameStr(tags, Frame_TRCK),
              genre       |-> FrameStr(tags, Frame_TCON),
              comment     |-> FrameStr(tags, Frame_COMM_eng),
              albumartist |-> FrameStr(tags, Frame_TPE2),
              composer    |-> FrameStr(tags, Frame_TCOM)]
    ELSE IF PathEndsWith(path, KindFlac) \/ PathEndsWith(path, KindOgg) THEN
        [k \in DataKeys |-> safe_str(ValuesOf(tags, DataVorbisKey[k], TRUE))]
    ELSE IF PathEndsWith(path, KindM4a) THEN
        [title       |-> safe_str(ValuesOf(tags, AtomKey["title"], FALSE)),
         artist      |-> safe_str(ValuesOf(tags, AtomKey["artist"], FALSE)),
         album       |-> safe_str(ValuesOf(tags, AtomKey["album"], FALSE)),
         date        |-> safe_str(ValuesOf(tags, AtomKey["year"], FALSE)),
         track       |-> PairStr(tags),
         genre       |-> safe_str(ValuesOf(tags, AtomKey["genre"], FALSE)),
         comment     |-> safe_str(ValuesOf(tags, AtomKey["comment"], FALSE)),
         albumartist |-> safe_str(ValuesOf(tags, AtomKey["albumartist"], FALSE)),
         composer    |-> safe_str(ValuesOf(tags, AtomKey["composer"], FALSE))]
    ELSE EmptyData

\* extract_cover reading the ogg value as the second revision does: base64 of a
\* picture block.
ExtractCoverBlock(path, f) ==
    IF PathEndsWith(path, KindMp3) \/ PathEndsWith(path, KindFlac) \/ PathEndsWith(path, KindM4a) THEN
        IF f.pics = <<>> \/ (~f.tagged /\ ~PathEndsWith(path, KindFlac)) THEN NoArg
        ELSE CoverArg(f.pics[1].data, <<>>)
    ELSE IF PathEndsWith(path, KindOgg) THEN
        LET pics == ValuesOf(f.tags, MBP_LOWER, TRUE) IN
        IF pics = <<>> THEN NoArg
        ELSE LET raw == b64decode(pics[1]) IN
             IF raw.ok /\ PictureLoad(raw.bytes).ok
             THEN CoverArg(PictureLoad(raw.bytes).pic.data, <<>>) ELSE NoArg
    ELSE NoArg

\* extract_cover(audio, path): the image bytes, or None; every error gives None.
\* The ogg value is decoded as base64 and not parsed as a picture block.
extract_cover(path, f) ==
    IF PathEndsWith(path, KindMp3) \/ PathEndsWith(path, KindFlac) \/ PathEndsWith(path, KindM4a) THEN
        IF f.pics = <<>> \/ (~f.tagged /\ ~PathEndsWith(path, KindFlac)) THEN NoArg
        ELSE CoverArg(f.pics[1].data, <<>>)
    ELSE IF PathEndsWith(path, KindOgg) THEN
        LET pics == ValuesOf(f.tags, MBP_LOWER, TRUE) IN
        IF pics = <<>> THEN NoArg
        ELSE LET raw == b64decode(pics[1]) IN
             IF raw.ok THEN CoverArg(raw.bytes, <<>>) ELSE NoArg
    ELSE NoArg

\* len(audio): the number of keys of the tags File(path) loaded; "not audio" holds
\* of a file without any.
AudioKeys(path, f) ==
    IF ~f.tagged THEN 0
    ELSE IF PathEndsWith(path, KindMp3) THEN Len(f.tags) + Len(f.pics)
    ELSE IF PathEndsWith(path, KindM4a) THEN Len(f.tags) + (IF f.pics = <<>> THEN 0 ELSE 1)
    ELSE Len(f.tags)

(***************************************************************************)
(* The codec functions called directly                                     *)
(***************************************************************************)

CallGetTags(p) ==
    LET r == get_tags(p, files[p]) IN
    /\ last' = Last("get_tags", p, <<>>, r.tags, NoArg, r.err, "", <<Io("get_tags", p)>>)
    /\ UNCHANGED <<files, left, right>>

\* set_tags writing every file of the model, not only the one at the path.
CallSetTagsEvery(p, t) ==
    /\ files' = [q \in DOMAIN files |-> set_tags(q, files[q], t).file]
    /\ last' = Last("set_tags", p, <<>>, t, NoArg, set_tags(p, files[p], t).err, "",
                    <<Io("set_tags", p)>>)
    /\ UNCHANGED <<left, right>>

CallSetTags(p, t) ==
    LET w == set_tags(p, files[p], t) IN
    /\ files' = [files EXCEPT ![p] = w.file]
    /\ last' = Last("set_tags", p, <<>>, t, NoArg, w.err, "", <<Io("set_tags", p)>>)
    /\ UNCHANGED <<left, right>>

CallGetCover(p) ==
    LET r == get_cover_bytes(p, files[p]) IN
    /\ last' = Last("get_cover_bytes", p, <<>>, EmptyTags,
                    [some |-> r.some, data |-> r.data, mime |-> r.mime], r.err, "",
                    <<Io("get_cover_bytes", p)>>)
    /\ UNCHANGED <<files, left, right>>

CallSetCover(p, data, mime) ==
    LET w == set_cover_bytes(p, files[p], data, mime) IN
    /\ files' = [files EXCEPT ![p] = w.file]
    /\ last' = [Last("set_cover_bytes", p, <<>>, EmptyTags, CoverArg(data, mime), w.err, "",
                     <<Io("set_cover_bytes", p)>>) EXCEPT !.had = CoverEntries(p, files[p])]
    /\ UNCHANGED <<left, right>>

\* AudioInspector.show_audio(path) of the first revision: nothing is shown for a
\* path that is no audio file or a file without tags; File(path) raises on a
\* container it cannot parse; else the tags and the cover are read and shown.
show_audio(p) ==
    LET f     == files[p]
        audio == \E i \in 1..Len(AUDIO_EXT) : PathEndsWith(p, AUDIO_EXT[i])
    IN
    /\ last' =
         IF p = <<>> \/ ~audio THEN
             Last("show_audio", p, <<>>, EmptyTags, NoArg, "", "", <<>>)
         ELSE IF ~f.parse THEN
             Last("show_audio", p, <<>>, EmptyTags, NoArg, "ParseError", "", <<Io("File", p)>>)
         ELSE IF AudioKeys(p, f) = 0 THEN
             Last("show_audio", p, <<>>, EmptyTags, NoArg, "", "", <<Io("File", p)>>)
         ELSE
             Last("show_audio", p, <<>>, get_tags_rev1(p, f), extract_cover(p, f), "", "",
                  <<Io("File", p), Io("get_tags", p), Io("extract_cover", p)>>)
    /\ UNCHANGED <<files, left, right>>

(***************************************************************************)
(* The two pure functions called directly                                  *)
(***************************************************************************)

\* No file, or a file under every path classified: the classification does not
\* look at it.
InitPure ==
    /\ left = <<>>
    /\ right = <<>>
    /\ files \in {[p \in {} |-> Corrupt], [p \in PathInputs |-> Corrupt]}
    /\ last = Idle

CallGetAudioKind(p) ==
    /\ last' = [Last("get_audio_kind", p, <<>>, EmptyTags, NoArg, "", "", <<>>)
                   EXCEPT !.kind = get_audio_kind(p)]
    /\ UNCHANGED <<files, left, right>>

CallGuessMime(data) ==
    /\ last' = Last("guess_mime_from_bytes", <<>>, <<>>, EmptyTags,
                    CoverArg(data, guess_mime_from_bytes(data)), "", "", <<>>)
    /\ UNCHANGED <<files, left, right>>

(***************************************************************************)
(* The copy handlers of the main window                                    *)
(***************************************************************************)

\* A refresh that reads the cover only.
RefreshIoCover(p) == <<Io("get_cover_bytes", p)>>

\* FilePanel._refresh_info(path): the cover and the tags are read again; what the
\* reads raise is caught there.
RefreshIo(p) == <<Io("get_cover_bytes", p), Io("get_tags", p)>>

\* An except clause that lets the error pass: nothing shown, nothing recorded.
ShowErrorSwallowed(exc) == [notice |-> "", err |-> ""]

\* "except Exception as e: self._show_error(title, e)": a critical message box
\* with str(e) as its text and the traceback as its details; the handler returns.
_show_error(exc) == [notice |-> "error", err |-> exc]

\* The test left out: whatever was read is written.
CoverMissingNever(cover) == FALSE

\* "if not cover": the source gave no cover.
CoverMissing(cover) == ~cover.some

\* MainWindow.copy_cover_left_to_right
copy_cover_left_to_right ==
    LET l == selected_file_path(left)
        r == selected_file_path(right)
    IN  IF l = <<>> \/ r = <<>> THEN
            /\ last' = Last("copy_cover", r, l, EmptyTags, NoArg, "", "", <<>>)
            /\ UNCHANGED <<files, left, right>>
        ELSE LET cover == get_cover_bytes(l, files[l])
                 got   == [some |-> cover.some, data |-> cover.data, mime |-> cover.mime]
                 w     == set_cover_bytes(r, files[r], cover.data, cover.mime)
             IN  IF cover.err # "" THEN
                     /\ last' = Last("copy_cover", r, l, EmptyTags, NoArg, _show_error(cover.err).err, _show_error(cover.err).notice,
                                     <<Io("get_cover_bytes", l)>>)
                     /\ UNCHANGED <<files, left, right>>
                 ELSE IF CoverMissing(cover) THEN
                     /\ last' = Last("copy_cover", r, l, EmptyTags, NoArg, "", "nothing",
                                     <<Io("get_cover_bytes", l)>>)
                     /\ UNCHANGED <<files, left, right>>
                 ELSE IF w.err # "" THEN
                     /\ last' = Last("copy_cover", r, l, EmptyTags, got, _show_error(w.err).err, _show_error(w.err).notice,
                                     <<Io("get_cover_bytes", l), Io("set_cover_bytes", r)>>)
                     /\ UNCHANGED <<files, left, right>>
                 ELSE
                     /\ files' = [files EXCEPT ![r] = w.file]
                     /\ last' = Last("copy_cover", r, l, EmptyTags, got, "", "copied",
                                     <<Io("get_cover_bytes", l), Io("set_cover_bytes", r)>>
                                     \o RefreshIo(r))
                     /\ UNCHANGED <<left, right>>

\* MainWindow.copy_tags_left_to_right
copy_tags_left_to_right ==
    LET l == selected_file_path(left)
        r == selected_file_path(right)
    IN  IF l = <<>> \/ r = <<>> THEN
            /\ last' = Last("copy_tags", r, l, EmptyTags, NoArg, "", "", <<>>)
            /\ UNCHANGED <<files, left, right>>
        ELSE LET tags == get_tags(l, files[l])
                 w    == set_tags(r, files[r], tags.tags)
             IN  IF tags.err # "" THEN
                     /\ last' = Last("copy_tags", r, l, EmptyTags, NoArg, _show_error(tags.err).err, _show_error(tags.err).notice,
                                     <<Io("get_tags", l)>>)
                     /\ UNCHANGED <<files, left, right>>
                 ELSE IF w.err # "" THEN
                     /\ last' = Last("copy_tags", r, l, tags.tags, NoArg, _show_error(w.err).err, _show_error(w.err).notice,
                                     <<Io("get_tags", l), Io("set_tags", r)>>)
                     /\ UNCHANGED <<files, left, right>>
                 ELSE
                     /\ files' = [files EXCEPT ![r] = w.file]
                     /\ last' = Last("copy_tags", r, l, tags.tags, NoArg, "", "copied",
                                     <<Io("get_tags", l), Io("set_tags", r)>> \o RefreshIo(r))
                     /\ UNCHANGED <<left, right>>

\* The four branches of copy_cover of the first revision, on the destination
\* file f: the image is stored as a JPEG front cover.  ID3(dst) raises on an mp3
\* file without header.  fmt is the format tag the image carries into an m4a file.
CopyCoverWrite(dst, f, img, fmt) ==
    IF PathEndsWith(dst, KindMp3) THEN
        IF ~f.tagged THEN WriteResult("ID3NoHeaderError", f)
        ELSE WriteResult("", [f EXCEPT !.pics = <<[NewPicture EXCEPT !.type = FrontCover,
                                                      !.mime = ImageJpeg, !.desc = CoverDesc,
                                                      !.data = img]>>])
    ELSE IF PathEndsWith(dst, KindFlac) THEN
        WriteResult("", [f EXCEPT !.pics = <<[NewPicture EXCEPT !.type = FrontCover,
                                                 !.mime = ImageJpeg, !.data = img]>>])
    ELSE IF PathEndsWith(dst, KindOgg) THEN
        WriteResult("", [f EXCEPT !.tags = SetKey(f.tags, Entry(MBP_LOWER, b64encode(img)), TRUE)])
    ELSE IF PathEndsWith(dst, KindM4a) THEN
        WriteResult("", [f EXCEPT !.tagged = TRUE,
                                  !.tags = IF f.tagged THEN f.tags ELSE <<>>,
                                  !.pics = <<[NewPicture EXCEPT !.data = img, !.fmt = fmt]>>])
    ELSE WriteResult("", f)

\* MainWindow.copy_cover of the first revision: the paths last selected in the
\* two panels; File() raises on an audio file it cannot parse; nothing is
\* written when the source gives no image; the destination is shown again.
copy_cover ==
    LET src == left
        dst == right
        Raises(p) == ~files[p].parse /\ \E i \in 1..Len(AUDIO_EXT) : PathEndsWith(p, AUDIO_EXT[i])
    IN  IF src = <<>> \/ dst = <<>> THEN
            /\ last' = Last("copy_cover_1", dst, src, EmptyTags, NoArg, "", "", <<>>)
            /\ UNCHANGED <<files, left, right>>
        ELSE IF Raises(src) THEN
            /\ last' = Last("copy_cover_1", dst, src, EmptyTags, NoArg, "ParseError", "",
                            <<Io("File", src)>>)
            /\ UNCHANGED <<files, left, right>>
        ELSE IF Raises(dst) THEN
            /\ last' = Last("copy_cover_1", dst, src, EmptyTags, NoArg, "ParseError", "",
                            <<Io("File", src), Io("File", dst)>>)
            /\ UNCHANGED <<files, left, right>>
        ELSE LET img == extract_cover(src, files[src])
                 fmt == IF PathEndsWith(src, KindM4a) /\ files[src].pics # <<>>
                        THEN files[src].pics[1].fmt ELSE FORMAT_JPEG
                 w   == CopyCoverWrite(dst, files[dst], img.data, fmt)
                 io  == <<Io("File", src), Io("File", dst), Io("extract_cover", src)>>
             IN  IF ~img.some \/ img.data = <<>> THEN
                     /\ last' = Last("copy_cover_1", dst, src, EmptyTags, NoArg, "", "", io)
                     /\ UNCHANGED <<files, left, right>>
                 ELSE IF w.err # "" THEN
                     /\ last' = Last("copy_cover_1", dst, src, EmptyTags, img, w.err, "", io)
                     /\ UNCHANGED <<files, left, right>>
                 ELSE
                     /\ files' = [files EXCEPT ![dst] = w.file]
                     /\ last' = Last("copy_cover_1", dst, src, EmptyTags, img, "", "",
                                     io \o <<Io("show_audio", dst)>>)
                     /\ UNCHANGED <<left, right>>

(***************************************************************************)
(* Specifications                                                          *)
(***************************************************************************)

Next == copy_cover_left_to_right \/ copy_tags_left_to_right

\* The application: the two copy buttons, on the files selected.
Spec == Init /\ [][Next]_vars

NextTags ==
    \/ \E p \in DOMAIN files : show_audio(p)
    \/ \E p \in DOMAIN files : \E t \in TagInputs : CallSetTags(p, t)
    \/ \E p \in DOMAIN files : CallGetTags(p)

\* get_tags and set_tags called on a file, any number of times.
SpecTags == InitCodec /\ [][NextTags]_vars

NextCover ==
    \/ \E p \in DOMAIN files : \E d \in DataInputs, m \in MimeInputs : CallSetCover(p, d, m)
    \/ \E p \in DOMAIN files : CallGetCover(p)

\* get_cover_bytes and set_cover_bytes called on a file, any number of times.
SpecCover == InitCodec /\ [][NextCover]_vars

\* Both panels with an audio file selected, each with entries and a picture.
InitPair ==
    /\ \E lp \in LeftPaths, rp \in RightPaths :
          /\ Lower(Suffix(lp)) = Suffix(lp) /\ FullFile(lp) # Corrupt
          /\ Lower(Suffix(rp)) = Suffix(rp) /\ FullFile(rp) # Corrupt
          /\ left = lp
          /\ right = rp
          /\ files = Selected(lp, FullFile(lp), rp, FullFile(rp))
    /\ last = Idle

NextPair ==
    \/ \E p \in DOMAIN files : CallGetTags(p)
    \/ \E p \in DOMAIN files : CallGetCover(p)
    \/ \E p \in DOMAIN files : \E t \in PairTags : CallSetTags(p, t)
    \/ \E p \in DOMAIN files : CallSetCover(p, JpegData, ImagePng)
    \/ copy_cover_left_to_right
    \/ copy_tags_left_to_right

\* The codec functions and the copy handlers in any order on two files.
SpecPair == InitPair /\ [][NextPair]_vars

\* The tag sets and covers of the runs that mix tag writes and cover writes.
FrameTags == {BaseTags, NoComment, EmptyTags}

FrameCovers == {CoverArg(JpegData, ImagePng), CoverArg(PngData, <<>>)}

NextFrame ==
    \/ \E p \in DOMAIN files : \E t \in FrameTags : CallSetTags(p, t)
    \/ \E p \in DOMAIN files : \E c \in FrameCovers : CallSetCover(p, c.data, c.mime)

\* set_tags and set_cover_bytes called on a file in any order.
SpecFrame == InitCodec /\ [][NextFrame]_vars

\* Both panels browse the same folder and have the same file selected.
InitSame ==
    /\ \E p \in RightPaths : \E f \in InitFiles(p) :
          /\ left = p
          /\ right = p
          /\ files = Selected(p, f, p, f)
    /\ last = Idle

\* The two copy buttons, with the same file or two files selected.
SpecSame == (InitSame \/ InitPair) /\ [][Next]_vars

NextRev1 ==
    \/ copy_cover
    \/ \E p \in {left, right} \ {<<>>} : show_audio(p)

\* The first revision: a selection in each panel, the copy button, and the
\* inspectors showing the files selected.
SpecRev1 == Init /\ [][NextRev1]_vars

NextPure ==
    \/ \E p \in PathInputs : CallGetAudioKind(p)
    \/ \E d \in ByteInputs : CallGuessMime(d)

\* get_audio_kind and guess_mime_from_bytes called on any input, any number of times.
SpecPure == InitPure /\ [][NextPure]_vars

(***************************************************************************)
(* Properties                                                              *)
(***************************************************************************)

Kinds == {KindMp3, KindFlac, KindOgg, KindM4a}

\* The path names a file of one of the four kinds.
Supported(p) == get_audio_kind(p) \in Kinds

\* ... that the library can parse.
Readable(p, f) == Supported(p) /\ f.parse

\* All nine values are non-empty.
AllSet(t) == \A k \in Fields : t[k] # <<>>

\* The container holds an entry for the field.
Stored(p, f, k) ==
    LET kind == get_audio_kind(p) IN
    CASE kind = KindMp3 -> k # "comment" /\ HasKey(f.tags, EasyFrame[EasyKeyOf[k]], FALSE)
      [] kind \in {KindFlac, KindOgg} -> HasKey(f.tags, VorbisKey[k], TRUE)
      [] kind = KindM4a -> HasKey(f.tags, AtomKey[k], FALSE)
      [] OTHER -> FALSE

\* C1: tag round trip.  After set_tags(p, T) on a file of one of the four kinds,
\* T holding nine non-empty values, the call has succeeded and get_tags(p)
\* returns T, whatever the file held before.
C1_TagRoundTrip ==
    (last.op = "set_tags" /\ Readable(last.path, files[last.path]) /\ AllSet(last.tags))
        => /\ last.err = ""
           /\ get_tags(last.path, files[last.path]) = TagsResult("", last.tags)

\* T2 is T1 with one of its fields emptied.
OneCleared(t1, t2) == \E k \in Fields : t1[k] # <<>> /\ t2 = [t1 EXCEPT ![k] = <<>>]

\* C2: deletion by empty.  When set_tags(p, T) is followed by set_tags(p, T'), T'
\* being T with one field emptied, get_tags(p) then returns T' (the empty string
\* for that field, the values of T for the other eight) and the container holds
\* no entry for the fields T' leaves empty.
C2_DeletionByEmpty ==
    [][(/\ last.op = "set_tags"
        /\ last'.op = "set_tags"
        /\ last'.path = last.path
        /\ Readable(last.path, files[last.path])
        /\ OneCleared(last.tags, last'.tags))
       => /\ last'.err = ""
          /\ get_tags(last'.path, files'[last'.path]) = TagsResult("", last'.tags)
          /\ \A k \in Fields : last'.tags[k] = <<>> => ~Stored(last'.path, files'[last'.path], k)]_vars

\* C3: at most one cover.  After every set_cover_bytes call that succeeds, the
\* container holds exactly one cover entry, and the cover read from it has the
\* bytes of that call, whatever entries the file held before.
C3_OneCover ==
    (last.op = "set_cover_bytes" /\ last.err = "")
        => LET cover == get_cover_bytes(last.path, files[last.path])
           IN  /\ CoverEntries(last.path, files[last.path]) = 1
               /\ cover.some
               /\ cover.data = last.cover.data

\* C3 happens: a write on an ogg file that held two picture comments.
C3_Witness ==
    /\ last.op = "set_cover_bytes"
    /\ last.err = ""
    /\ get_audio_kind(last.path) = KindOgg
    /\ last.had = 2
    /\ CoverEntries(last.path, files[last.path]) = 1

\* The cover read back after set_cover_bytes(p, data, mime) on a readable file:
\* the same bytes with the given mime.
RoundTrip(mime) ==
    (last.op = "set_cover_bytes" /\ Readable(last.path, files[last.path]))
        => /\ last.err = ""
           /\ get_cover_bytes(last.path, files[last.path]) = Cover(last.cover.data, mime)

\* C4 as claimed: cover round trip.  set_cover_bytes(p, bytes, mime) followed by
\* get_cover_bytes(p) returns the same bytes, with the mime given for mp3, flac
\* and m4a and with guess_mime_from_bytes(bytes) for ogg.
C4_AsClaimed ==
    RoundTrip(IF get_audio_kind(last.path) = KindOgg
              THEN guess_mime_from_bytes(last.cover.data)
              ELSE last.cover.mime)

\* C4 as amended: the same bytes; for mp3, flac and ogg the mime given, or
\* guess_mime_from_bytes(bytes) when the mime given is empty; for m4a image/png
\* when the mime given ends in "png" (in any case) and image/jpeg otherwise.
C4_CoverRoundTrip ==
    RoundTrip(IF get_audio_kind(last.path) = KindM4a
              THEN (IF EndsWith(Lower(last.cover.mime), <<"p", "n", "g">>)
                    THEN ImagePng ELSE ImageJpeg)
              ELSE IF last.cover.mime # <<>> THEN last.cover.mime
              ELSE guess_mime_from_bytes(last.cover.data))

\* C4 happens: an ogg file was given JPEG bytes labelled image/png and returns
\* them labelled image/png.
C4_Witness ==
    /\ last.op = "set_cover_bytes"
    /\ last.err = ""
    /\ get_audio_kind(last.path) = KindOgg
    /\ last.cover.data = JpegData
    /\ last.cover.mime = ImagePng
    /\ get_cover_bytes(last.path, files[last.path]) = Cover(JpegData, ImagePng)

\* Both panels have an audio file selected.
PairSelected == selected_file_path(left) # <<>> /\ selected_file_path(right) # <<>>

C6_CopiedBytes ==
    (last.op = "copy_cover" /\ last.notice = "copied")
        => LET src == get_cover_bytes(left, files[left])
               dst == get_cover_bytes(right, files[right])
           IN  src.some /\ dst.some /\ dst.data = src.data

\* C6 happens: a PNG picture without mime was copied from a flac file to an ogg file.
C6_Witness ==
    /\ last.op = "copy_cover"
    /\ last.notice = "copied"
    /\ get_audio_kind(left) = KindFlac
    /\ get_audio_kind(right) = KindOgg
    /\ get_cover_bytes(right, files[right]).data = PngData

\* The file of the right panel after set_tags(dst, get_tags(src)); a read that
\* raises leaves nothing to write.
TagsComposed ==
    LET t == get_tags(left, files[left])
    IN  IF t.err # "" THEN files[right] ELSE set_tags(right, files[right], t.tags).file

\* The file of the right panel after set_cover_bytes(dst, *get_cover_bytes(src)).
CoverComposed ==
    LET c == get_cover_bytes(left, files[left])
    IN  set_cover_bytes(right, files[right], c.data, c.mime).file

\* The files after a copy are those the composition of the primitives leaves.
CopyComposes ==
    /\ last'.op = "copy_tags" => files' = [files EXCEPT ![right] = TagsComposed]
    /\ (last'.op = "copy_cover" /\ get_cover_bytes(left, files[left]).some)
           => files' = [files EXCEPT ![right] = CoverComposed]

\* C7 as claimed: copy is the composition of the primitives.  The files after
\* copy_tags_left_to_right and after copy_cover_left_to_right (with a source
\* cover) are those the composition leaves, and the handler makes no codec call
\* but the read of the source and the write of the destination.
C7_AsClaimed ==
    [][PairSelected =>
          /\ CopyComposes
          /\ last'.op = "copy_tags"
                => last'.io \in {<<Io("get_tags", left)>>,
                                 <<Io("get_tags", left), Io("set_tags", right)>>}
          /\ (last'.op = "copy_cover" /\ get_cover_bytes(left, files[left]).some)
                => last'.io = <<Io("get_cover_bytes", left), Io("set_cover_bytes", right)>>]_vars

\* The calls of a copy: the read; if it gave something to write, the write; if
\* the write succeeded, the two reads that refresh the right panel.
CopyCalls(get, set, wrote) ==
    <<Io(get, left), Io(set, right)>>
    \o (IF wrote THEN <<Io("get_cover_bytes", right), Io("get_tags", right)>> ELSE <<>>)

\* C7 as amended: the files after a copy are those the composition leaves; the
\* handler makes no other write to either file and no other read of the source,
\* and after a write that succeeded it reads the destination again
\* (get_cover_bytes, then get_tags) to refresh the right panel.
C7_CopyComposes ==
    [][PairSelected =>
          /\ CopyComposes
          /\ last'.op = "copy_tags"
                => last'.io = IF get_tags(left, files[left]).err # ""
                              THEN <<Io("get_tags", left)>>
                              ELSE CopyCalls("get_tags", "set_tags", last'.err = "")
          /\ (last'.op = "copy_cover" /\ get_cover_bytes(left, files[left]).some)
                => last'.io = CopyCalls("get_cover_bytes", "set_cover_bytes", last'.err = "")]_vars

\* C7 happens: tags were copied from an m4a file to an mp3 file and the right
\* panel was refreshed.
C7_Witness ==
    /\ last.op = "copy_tags"
    /\ last.notice = "copied"
    /\ get_audio_kind(left) = KindM4a
    /\ get_audio_kind(right) = KindMp3
    /\ Len(last.io) = 4
    /\ get_tags(right, files[right]).tags["title"] = get_tags(left, files[left]).tags["title"]

\* The file is readable and holds no tag container (for ogg, whose comment
\* header is never absent, no comment).
TagContainerAbsent(p, f) ==
    /\ Readable(p, f)
    /\ IF get_audio_kind(p) = KindOgg THEN f.tags = <<>> ELSE ~f.tagged

\* C8 as claimed: no-tag robustness.  On a readable file without tag container
\* get_tags returns the nine empty values and get_cover_bytes returns None;
\* neither raises.
C8_AsClaimed ==
    (last.op = "get_cover_bytes" /\ TagContainerAbsent(last.path, files[last.path]))
        => /\ get_tags(last.path, files[last.path]) = TagsResult("", EmptyTags)
           /\ last.err = ""
           /\ ~last.cover.some

\* C8 as amended: neither raises; get_tags returns the nine empty values;
\* get_cover_bytes returns None, except on a flac file that holds picture
\* blocks (they lie outside the comment block), where it returns the first.
C8_NoTagRobustness ==
    (last.op = "get_cover_bytes" /\ TagContainerAbsent(last.path, files[last.path]))
        => /\ get_tags(last.path, files[last.path]) = TagsResult("", EmptyTags)
           /\ last.err = ""
           /\ IF get_audio_kind(last.path) = KindFlac /\ files[last.path].pics # <<>>
              THEN last.cover.some /\ last.cover.data = files[last.path].pics[1].data
              ELSE ~last.cover.some

\* C8 happens: get_cover_bytes was called on a flac file that has no comment
\* block and holds a picture block, and returned the picture.
C8_Witness ==
    /\ last.op = "get_cover_bytes"
    /\ get_audio_kind(last.path) = KindFlac
    /\ TagContainerAbsent(last.path, files[last.path])
    /\ last.err = ""
    /\ last.cover.some

\* C9: read never fails on corrupt input.  On a file of one of the four kinds
\* that cannot be parsed, get_tags returns the nine empty values and
\* get_cover_bytes returns None; neither raises.
C9_CorruptRead ==
    (Supported(last.path) /\ ~files[last.path].parse)
        => /\ last.op = "get_tags" => (last.err = "" /\ last.tags = EmptyTags)
           /\ last.op = "get_cover_bytes" => (last.err = "" /\ ~last.cover.some)

\* C10: every operation on a path whose extension is not one of the four fails
\* with an error; none returns a default value.
C10_Unsupported ==
    (last.op \in {"get_tags", "get_cover_bytes", "set_tags", "set_cover_bytes"}
        /\ ~Supported(last.path))
        => last.err # ""

\* The name of the path ends in a dot and the letters of the kind, in any case,
\* and something precedes the dot.
HasExtension(p, kind) ==
    LET name == PathName(p)
        n    == Len(name)
        k    == Len(kind)
    IN  /\ n > k + 1
        /\ name[n - k] = "."
        /\ \A i \in 1..k : LowerChar(name[n - k + i]) = kind[i]

\* C11: classification.  get_audio_kind(p) is the kind whose extension the name
\* of p carries, letter case ignored, and none of the four kinds when it
\* carries none of the four; it is the same whether or not a file exists.
C11_Classification ==
    last.op = "get_audio_kind"
        => /\ \A k \in Kinds : last.kind = k <=> HasExtension(last.path, k)
           /\ last.kind \in Kinds <=> \E k \in Kinds : HasExtension(last.path, k)
           /\ Cardinality(Kinds) = 4

\* C11 happens: a path under a directory named like an mp3 file, with the
\* extension in upper case, was classified as flac.
C11_Witness ==
    /\ last.op = "get_audio_kind"
    /\ last.path = <<"d", ".", "m", "p", "3", "/", "a", ".", "F", "L", "A", "C">>
    /\ last.kind = KindFlac

\* C12: guess_mime_from_bytes.  image/png exactly when the data starts with the
\* eight bytes of the PNG signature; image/jpeg for data starting with FF D8 FF
\* and for everything else, the empty data and shorter prefixes included; no
\* input makes it fail.
C12_GuessMime ==
    last.op = "guess_mime_from_bytes"
        => LET d == last.cover.data IN
           /\ last.err = ""
           /\ last.cover.mime \in {ImageJpeg, ImagePng}
           /\ last.cover.mime = ImagePng
                 <=> (Len(d) >= 8 /\ \A i \in 1..8 : d[i] = PngMagic[i])
           /\ (Len(d) >= 3 /\ d[1] = 255 /\ d[2] = 216 /\ d[3] = 255)
                 => last.cover.mime = ImageJpeg

\* C12 happens: seven bytes of the PNG signature were taken for image/jpeg.
C12_Witness ==
    /\ last.op = "guess_mime_from_bytes"
    /\ last.cover.data = SubSeq(PngMagic, 1, 7)
    /\ last.cover.mime = ImageJpeg

\* get_tags has returned: the second revision's function, or the first
\* revision's called by show_audio.
TagsReturned ==
    \/ last.op = "get_tags" /\ last.err = ""
    \/ last.op = "show_audio" /\ \E i \in 1..Len(last.io) : last.io[i].f = "get_tags"

\* The characters of the model's strings.
Chars == AsciiSet \cup {NonAscii, "(c)"}

\* C13 as claimed: every mapping get_tags returns has exactly the nine keys
\* title, artist, album, year, track, genre, comment, albumartist, composer.
C13_AsClaimed == TagsReturned => DOMAIN last.tags = Fields

\* C13: nine keys, always.  Every mapping get_tags returns has exactly nine keys,
\* each bound to a string, "" for a missing field: title, artist, album, year,
\* track, genre, comment, albumartist, composer in the second revision; the
\* first revision's mapping has date where the second has year.
C13_NineKeys ==
    TagsReturned
        => /\ last.op = "get_tags" => DOMAIN last.tags = Fields
           /\ last.op = "show_audio" => DOMAIN last.tags = (Fields \ {"year"}) \cup {"date"}
           /\ Cardinality(DOMAIN last.tags) = 9
           /\ \A k \in DOMAIN last.tags : last.tags[k] \in Seq(Chars)

\* C13 happens: the first revision's get_tags returned a mapping with a date and
\* with fields missing from the file.
C13_Witness ==
    /\ last.op = "show_audio"
    /\ TagsReturned
    /\ last.tags["date"] # <<>>
    /\ last.tags["albumartist"] = <<>>

\* C14: whenever get_cover_bytes returns a cover, its bytes are not empty.
C14_CoverNotEmpty ==
    (last.op = "get_cover_bytes" /\ last.err = "" /\ last.cover.some)
        => last.cover.data # <<>>

\* C15: whenever get_cover_bytes returns a cover, its mime is image/jpeg or
\* image/png.
C15_MimeJpegOrPng ==
    (last.op = "get_cover_bytes" /\ last.err = "" /\ last.cover.some)
        => last.cover.mime \in {ImageJpeg, ImagePng}

\* C16: a non-empty value is written unconditionally.  After set_tags on a
\* readable file of any kind, get_tags returns, for every field given a non-empty
\* string without blanks around it, that string.
C16_WrittenUnconditionally ==
    (last.op = "set_tags" /\ Readable(last.path, files[last.path]))
        => \A k \in Fields :
              (last.tags[k] # <<>> /\ norm(last.tags[k]) = last.tags[k])
                  => get_tags(last.path, files[last.path]).tags[k] = last.tags[k]

\* The write a copy handler run from this state makes raises: both files are
\* selected, the read of the source succeeds (and finds a cover), and set_tags
\* or set_cover_bytes on the destination raises.  cause is the error raised.
TagsWriteError ==
    LET l == selected_file_path(left)
        r == selected_file_path(right)
    IN  IF l = <<>> \/ r = <<>> \/ get_tags(l, files[l]).err # "" THEN ""
        ELSE set_tags(r, files[r], get_tags(l, files[l]).tags).err

CoverWriteError ==
    LET l == selected_file_path(left)
        r == selected_file_path(right)
    IN  IF l = <<>> \/ r = <<>> THEN ""
        ELSE LET cover == get_cover_bytes(l, files[l]) IN
             IF cover.err # "" \/ ~cover.some THEN ""
             ELSE set_cover_bytes(r, files[r], cover.data, cover.mime).err

\* What the handler does with the error: an error report carrying the cause is
\* shown, the success notice is not, and the handler returns to the event loop
\* with both selections as they were.
Surfaced(cause) ==
    /\ last'.notice = "error"
    /\ last'.err = cause
    /\ last'.notice # "copied"
    /\ left' = left /\ right' = right

\* C17: write failures are surfaced and do not stop the application.  When
\* set_tags or set_cover_bytes raises during a copy, the handler shows an error
\* report with the cause and no success notice, and returns.
C17_WriteFailureSurfaced ==
    [][/\ (last'.op = "copy_tags" /\ TagsWriteError # "") => Surfaced(TagsWriteError)
       /\ (last'.op = "copy_cover" /\ CoverWriteError # "") => Surfaced(CoverWriteError)]_vars

\* C17 happens: copying tags that hold a comment to an mp3 file raised
\* EasyID3KeyError in set_tags, and the error was reported.
C17_Witness ==
    /\ last.op = "copy_tags"
    /\ last.notice = "error"
    /\ last.err = "EasyID3KeyError"
    /\ last.io = <<Io("get_tags", last.src), Io("set_tags", last.path)>>

NoHeader(p) ==
    /\ p \in DOMAIN files
    /\ get_audio_kind(p) = KindMp3
    /\ files[p].parse
    /\ ~files[p].tagged

\* C19: writing to an mp3 file without ID3 header.  set_tags and set_cover_bytes
\* do not fail on it: the file then has a header, and a following read returns
\* the (stripped) values, or the cover, that were written.
C19_NoHeaderWrite ==
    [][/\ (last'.op = "set_tags" /\ NoHeader(last'.path))
            => /\ last'.err = ""
               /\ files'[last'.path].tagged
               /\ get_tags(last'.path, files'[last'.path]).tags = NormTags(last'.tags)
       /\ (last'.op = "set_cover_bytes" /\ NoHeader(last'.path))
            => /\ last'.err = ""
               /\ files'[last'.path].tagged
               /\ get_cover_bytes(last'.path, files'[last'.path]).data = last'.cover.data]_vars

\* The text of the eng-language comment slot of an mp3 file, "" when it has none.
EngComment(f) == IF f.parse /\ f.tagged THEN FrameStr(f.tags, Frame_COMM_eng) ELSE <<>>

\* The comment frames of the other slots.
OtherComments(f) ==
    SelectSeq(f.tags, LAMBDA e : StartsWith(e.key, CommKey(<<>>, <<>>)) /\ e.key # Frame_COMM_eng)

\* C20: the mp3 comment is the eng-language comment slot.  On an mp3 file,
\* get_tags returns the text of that slot as the comment, set_tags leaves the
\* slot holding the comment given (no slot for ""), and neither returns nor
\* changes the comment frames of other slots.
C20_EngCommentSlot ==
    [][(last'.path \in DOMAIN files /\ get_audio_kind(last'.path) = KindMp3
            /\ files[last'.path].parse)
         => LET p == last'.path IN
            /\ last'.op = "get_tags" => last'.tags["comment"] = EngComment(files[p])
            /\ last'.op = "set_tags" => /\ EngComment(files'[p]) = norm(last'.tags["comment"])
                                        /\ OtherComments(files'[p]) = OtherComments(files[p])]_vars

\* The first value stored under a comment key in any letter case, "" when none.
FirstUnder(tags, key) ==
    LET at == {i \in 1..Len(tags) : Lower(tags[i].key) = Lower(key)}
    IN  IF at = {} THEN <<>> ELSE tags[CHOOSE i \in at : \A j \in at : i <= j].val

\* The comment entries of a file, none when it has no comment block.
Comments(f) == IF f.tagged THEN f.tags ELSE <<>>

\* C21: comment keys in any letter case.  On a flac or ogg file, get_tags (of
\* either revision) returns for each canonical field the value stored under its
\* comment key whatever the key's letter case, and after set_tags each field has
\* at most one entry, under the upper-case key, and has one when a value was given.
C21_KeyCase ==
    LET p == last.path IN
    (p \in DOMAIN files /\ get_audio_kind(p) \in {KindFlac, KindOgg} /\ files[p].parse)
        => LET tags == Comments(files[p]) IN
           /\ last.op = "get_tags"
                => \A k \in Fields : last.tags[k] = FirstUnder(tags, VorbisKey[k])
           /\ (last.op = "show_audio" /\ TagsReturned)
                => \A k \in Fields :
                      last.tags[IF k = "year" THEN "date" ELSE k] = FirstUnder(tags, VorbisKey[k])
           /\ (last.op = "set_tags" /\ last.err = "")
                => \A k \in Fields :
                      LET at == {i \in 1..Len(tags) : Lower(tags[i].key) = Lower(VorbisKey[k])} IN
                      /\ Cardinality(at) <= 1
                      /\ \A i \in at : tags[i].key = Upper(VorbisKey[k])
                      /\ norm(last.tags[k]) # <<>> => at # {}

\* Picture blocks whose content is known: those the files of the model start
\* with and those set_cover_bytes builds from its inputs, each with its base64
\* text.
KnownPictures ==
    {SomePictures(<<0, 0, 0>>)[i] : i \in 1..3}
    \cup {CoverPicture(d, m) : d \in DataInputs, m \in MimeInputs}

KnownBlocks == {[pic |-> pic, b64 |-> b64encode(PictureWrite(pic))] : pic \in KnownPictures}

\* The positions of the picture comments of an ogg file, in any key spelling.
PictureAt(tags) == {i \in 1..Len(tags) : Lower(tags[i].key) = Lower(MBP_UPPER)}

\* C22: the ogg cover is base64 of a picture block.  After set_cover_bytes on an
\* ogg file the one value under METADATA_BLOCK_PICTURE decodes to a picture
\* block of type 3 with the mime, the description "Cover" and the image bytes
\* given; get_cover_bytes on a file whose first picture comment is the base64
\* text of a block returns the image bytes inside the block and its mime, the
\* sniffed one when the block has none.
C22_OggPictureBlock ==
    LET p == last.path IN
    (p \in DOMAIN files /\ get_audio_kind(p) = KindOgg /\ files[p].parse)
        => LET tags == files[p].tags IN
           /\ (last.op = "set_cover_bytes" /\ last.err = "")
                => /\ Cardinality(PictureAt(tags)) = 1
                   /\ \A i \in PictureAt(tags) :
                         LET raw == b64decode(tags[i].val) IN
                         /\ tags[i].key = MBP_UPPER
                         /\ raw.ok
                         /\ PictureLoad(raw.bytes).ok
                         /\ PictureLoad(raw.bytes).pic
                               = [NewPicture EXCEPT !.type = 3,
                                                    !.mime = IF last.cover.mime # <<>>
                                                             THEN last.cover.mime
                                                             ELSE guess_mime_from_bytes(last.cover.data),
                                                    !.desc = <<"C", "o", "v", "e", "r">>,
                                                    !.data = last.cover.data]
           /\ last.op = "get_cover_bytes"
                => \A kb \in KnownBlocks :
                      FirstUnder(tags, MBP_UPPER) = kb.b64
                          => /\ last.err = ""
                             /\ last.cover.some
                             /\ last.cover.data = kb.pic.data
                             /\ last.cover.mime = IF kb.pic.mime # <<>> THEN kb.pic.mime
                                                  ELSE guess_mime_from_bytes(kb.pic.data)

\* C22 happens: get_cover_bytes on an ogg file whose picture comment is the
\* base64 text of a block holding a 10x10 JPEG returned those JPEG bytes with
\* image/jpeg.
C22_Witness ==
    /\ last.op = "get_cover_bytes"
    /\ get_audio_kind(last.path) = KindOgg
    /\ FirstUnder(files[last.path].tags, MBP_UPPER) = OggPictureEntries[1].val
    /\ SomePictures(<<0, 0, 0>>)[1].dims = <<10, 10, 24, 0>>
    /\ last.cover.data = JpegData
    /\ last.cover.mime = ImageJpeg

\* The trkn entries of an m4a file.
TrackAtoms(f) ==
    SelectSeq(IF f.tagged THEN f.tags ELSE <<>>, LAMBDA e : e.key = <<"t", "r", "k", "n">>)

\* C23: the m4a track pair.  get_tags exposes the first number of the trkn pair
\* only: (7, 12) reads as "7".  After a set_tags that returned, the file has no
\* trkn atom or one whose total is 0; a track given as a number n is stored as
\* (n, 0) and read back: "3" is stored as (3, 0) and reads as "3".
C23_TrackPair ==
    LET p == last.path IN
    (p \in DOMAIN files /\ get_audio_kind(p) = KindM4a /\ files[p].parse)
        => LET trkn == TrackAtoms(files[p]) IN
           /\ (last.op = "get_tags" /\ trkn # <<>>)
                => /\ trkn[1].pair = <<7, 12>> => last.tags["track"] = <<"7">>
                   /\ trkn[1].pair = <<3, 0>> => last.tags["track"] = <<"3">>
                   /\ trkn[1].pair[1] = 0 <=> last.tags["track"] = <<>>
                   /\ \A i \in 1..Len(last.tags["track"]) : IsDigitChar(last.tags["track"][i])
           /\ (last.op = "get_tags" /\ trkn = <<>>) => last.tags["track"] = <<>>
           /\ (last.op = "set_tags" /\ last.err = "")
                => /\ Len(trkn) <= 1
                   /\ \A i \in 1..Len(trkn) : trkn[i].pair[2] = 0
                   /\ norm(last.tags["track"]) = <<"3">>
                        => /\ trkn # <<>> /\ trkn[1].pair = <<3, 0>>
                           /\ get_tags(p, files[p]).tags["track"] = <<"3">>
                   /\ norm(last.tags["track"]) = <<"7">>
                        => trkn # <<>> /\ trkn[1].pair = <<7, 0>>
                   /\ norm(last.tags["track"]) = <<>> => trkn = <<>>

\* C23 happens: an m4a file that was given the track "3" holds (3, 0) and reads
\* as track "3".
C23_Witness ==
    /\ last.op = "get_tags"
    /\ get_audio_kind(last.path) = KindM4a
    /\ TrackAtoms(files[last.path]) # <<>>
    /\ TrackAtoms(files[last.path])[1].pair = <<3, 0>>
    /\ last.tags["track"] = <<"3">>

\* The mime strings that end in "png", in any letter case.
EndsInPng(mime) ==
    /\ Len(mime) >= 3
    /\ mime[Len(mime) - 2] \in {"p", "P"}
    /\ mime[Len(mime) - 1] \in {"n", "N"}
    /\ mime[Len(mime)] \in {"g", "G"}

\* C24: the format tag of an m4a cover.  After set_cover_bytes on an m4a file the
\* one cover holds the bytes given, with the PNG format tag when the mime given
\* ends in "png" in any letter case and the JPEG format tag for every other
\* mime, the empty one included; get_cover_bytes returns image/png for a first
\* cover with the PNG tag and image/jpeg for any other.
C24_M4aFormatTag ==
    LET p == last.path IN
    (p \in DOMAIN files /\ get_audio_kind(p) = KindM4a /\ files[p].parse)
        => /\ last.op = "set_cover_bytes"
                => /\ last.err = ""
                   /\ Len(files[p].pics) = 1
                   /\ files[p].pics[1].data = last.cover.data
                   /\ files[p].pics[1].fmt =
                         (IF EndsInPng(last.cover.mime) THEN FORMAT_PNG ELSE FORMAT_JPEG)
           /\ (last.op = "get_cover_bytes" /\ files[p].tagged /\ files[p].pics # <<>>)
                => /\ last.err = ""
                   /\ last.cover.some
                   /\ last.cover.data = files[p].pics[1].data
                   /\ last.cover.mime =
                         (IF files[p].pics[1].fmt = FORMAT_PNG THEN ImagePng ELSE ImageJpeg)

\* C24 happens: JPEG bytes given as "IMAGE/PNG" are stored with the PNG tag.
C24_Witness ==
    /\ last.op = "set_cover_bytes"
    /\ get_audio_kind(last.path) = KindM4a
    /\ last.cover.mime = <<"I", "M", "A", "G", "E", "/", "P", "N", "G">>
    /\ last.cover.data = JpegData
    /\ files[last.path].pics = <<[NewPicture EXCEPT !.data = JpegData, !.fmt = FORMAT_PNG]>>

\* The embedded pictures of a file in the order of its container, as (data,
\* mime) where the mime is the stored one (for m4a the one of the format tag).
\* The picture comments of an ogg file are those of PictureAt, decoded; a comment
\* that holds no picture block gives a picture that is not ok.
Embedded(path, f) ==
    LET kind == get_audio_kind(path) IN
    IF kind = KindOgg THEN
        LET at  == PictureAt(f.tags)
            nth(n) == CHOOSE i \in at : Cardinality({j \in at : j < i}) = n - 1
        IN  [n \in 1..Cardinality(at) |->
                LET val == f.tags[nth(n)].val IN
                IF \E kb \in KnownBlocks : kb.b64 = val
                THEN LET kb == CHOOSE kb \in KnownBlocks : kb.b64 = val
                     IN  [ok |-> TRUE, data |-> kb.pic.data, mime |-> kb.pic.mime]
                ELSE [ok |-> FALSE, data |-> <<>>, mime |-> <<>>]]
    ELSE IF kind = KindM4a THEN
        [n \in 1..Len(f.pics) |->
            [ok |-> TRUE, data |-> f.pics[n].data,
             mime |-> IF f.pics[n].fmt = FORMAT_PNG THEN ImagePng ELSE ImageJpeg]]
    ELSE [n \in 1..Len(f.pics) |-> [ok |-> TRUE, data |-> f.pics[n].data, mime |-> f.pics[n].mime]]

\* C25: single front cover.  On a file holding several embedded pictures,
\* get_cover_bytes returns the first of them in the order of the container; after
\* set_cover_bytes on such a file it holds exactly one picture, the one written,
\* and none of those it held.
C25_FirstPicture ==
    LET p == last.path IN
    (p \in DOMAIN files /\ Supported(p) /\ files[p].parse)
        => LET pics == Embedded(p, files[p]) IN
           /\ (last.op = "get_cover_bytes" /\ Len(pics) >= 2 /\ pics[1].ok)
                => /\ last.err = ""
                   /\ last.cover.some
                   /\ last.cover.data = pics[1].data
                   /\ last.cover.mime = (IF pics[1].mime # <<>> THEN pics[1].mime
                                         ELSE guess_mime_from_bytes(pics[1].data))
           /\ (last.op = "set_cover_bytes" /\ last.had >= 2)
                => /\ last.err = ""
                   /\ Len(pics) = 1
                   /\ pics[1].ok
                   /\ pics[1].data = last.cover.data

\* C25 happens: a file holds a PNG picture without mime and then a GIF picture,
\* and the cover read is the PNG picture.
C25_Witness ==
    /\ last.op = "get_cover_bytes"
    /\ get_audio_kind(last.path) = KindFlac
    /\ Len(files[last.path].pics) = 2
    /\ files[last.path].pics[1].data = PngData
    /\ files[last.path].pics[2].data = GifData
    /\ last.cover = CoverArg(PngData, ImagePng)

\* C25 happens on a write too: a file that held two pictures holds the one written.
C25_WitnessWrite ==
    /\ last.op = "set_cover_bytes"
    /\ last.had = 2
    /\ Len(files[last.path].pics) = 1
    /\ files[last.path].pics[1].data = last.cover.data

\* C26: tag writes and cover writes do not disturb each other.  A set_tags call
\* on a file leaves what get_cover_bytes returns for it as it was (no cover, or
\* the same bytes and mime), and a set_cover_bytes call leaves the nine values
\* get_tags returns for it as they were, for every kind.
C26_WritesApart ==
    [][\A p \in DOMAIN files :
          /\ (last'.op = "set_tags" /\ last'.path = p)
                => get_cover_bytes(p, files'[p]) = get_cover_bytes(p, files[p])
          /\ (last'.op = "set_cover_bytes" /\ last'.path = p)
                => get_tags(p, files'[p]) = get_tags(p, files[p])]_vars

\* C26 happens: an ogg file that was given a cover and then tags returns both.
C26_Witness ==
    /\ last.op = "set_tags"
    /\ last.err = ""
    /\ last.tags = NoComment
    /\ get_audio_kind(last.path) = KindOgg
    /\ get_cover_bytes(last.path, files[last.path]) = Cover(JpegData, ImagePng)
    /\ get_tags(last.path, files[last.path]).tags = NoComment

\* C27: set_tags is all-or-nothing.  A set_tags call that raises leaves the file
\* as it was: get_tags returns the nine values it returned before, none of the
\* fields updated before the one that raised is stored.
C27_AllOrNothing ==
    [][\A p \in DOMAIN files :
          (last'.op = "set_tags" /\ last'.path = p /\ last'.err # "")
              => /\ files'[p] = files[p]
                 /\ get_tags(p, files'[p]) = get_tags(p, files[p])]_vars

\* C27 happens: set_tags with a new title and a comment raised on an mp3 file,
\* and the file has the title it had.
C27_Witness ==
    /\ last.op = "set_tags"
    /\ last.err = "EasyID3KeyError"
    /\ get_audio_kind(last.path) = KindMp3
    /\ last.tags["title"] = <<"t">>
    /\ get_tags(last.path, files[last.path]).tags["title"] = <<"T">>

\* C28: after copy_tags_left_to_right succeeds, get_tags returns for the
\* destination the nine values it returns for the source, for every pair of
\* kinds (stated for source values without surrounding whitespace, which
\* set_tags strips).
C28_CopiedTagsEqual ==
    LET src == get_tags(last.src, files[last.src]).tags IN
    (last.op = "copy_tags" /\ last.notice = "copied" /\ \A k \in Fields : norm(src[k]) = src[k])
        => get_tags(last.path, files[last.path]).tags = src

\* C29: copying a file onto itself changes nothing.  When both panels have the
\* same path selected, copy_tags_left_to_right and copy_cover_left_to_right leave
\* the file as it was: its tag entries (the m4a track total, whitespace around
\* values) and its pictures (mime, description); and a copy between two files
\* leaves the source as it was.
C29_SelfCopyNoOp ==
    [][(last'.op \in {"copy_tags", "copy_cover"} /\ last'.src # <<>> /\ last'.path # <<>>)
          => files'[last'.src] = files[last'.src]]_vars

\* The second half alone: a copy between two files leaves the source as it was.
SourceUnchanged ==
    [][(last'.op \in {"copy_tags", "copy_cover"} /\ last'.src # <<>> /\ last'.path # <<>>
        /\ last'.src # last'.path)
          => files'[last'.src] = files[last'.src]]_vars

\* C30: in the first revision the cover copy_cover writes is read back unchanged.
\* After a copy_cover that found an image in the source and wrote it, extract_cover
\* returns for the destination the bytes it returns for the source, for every
\* pair of kinds; an ogg destination holds one picture comment, under
\* metadata_block_picture, whose value is the base64 text of those bytes, the
\* encoding extract_cover decodes.
C30_CopiedCoverReadBack ==
    (last.op = "copy_cover_1" /\ last.err = "" /\ last.cover.some)
        => LET dst == files[last.path] IN
           /\ (\E i \in 1..Len(AUDIO_EXT) : PathEndsWith(last.path, AUDIO_EXT[i]))
                => /\ extract_cover(last.path, dst).some
                   /\ extract_cover(last.path, dst).data = last.cover.data
                   /\ extract_cover(last.src, files[last.src]).data = last.cover.data
           /\ PathEndsWith(last.path, KindOgg)
                => /\ Cardinality(PictureAt(dst.tags)) = 1
                   /\ \A i \in PictureAt(dst.tags) :
                         /\ dst.tags[i].key = MBP_LOWER
                         /\ dst.tags[i].val = b64encode(last.cover.data)
                         /\ b64decode(dst.tags[i].val) = [ok |-> TRUE, bytes |-> last.cover.data]

\* C30 happens: the JPEG picture of a flac file was copied to an ogg file that
\* held two picture comments.
C30_Witness ==
    /\ last.op = "copy_cover_1"
    /\ last.err = ""
    /\ PathEndsWith(last.src, KindFlac)
    /\ PathEndsWith(last.path, KindOgg)
    /\ last.cover.data = JpegData
    /\ Cardinality(PictureAt(files[last.path].tags)) = 1
    /\ extract_cover(last.path, files[last.path]).data = JpegData

====
